---- MODULE Spec2Model ----
(***************************************************************************)
(* Form Monkey: the security-testing and scoring subsystem.                *)
(*                                                                         *)
(* main() dispatches on the operation mode to one of the category probers  *)
(* (SQL injection, XSS, CSRF, security headers) or to the comprehensive    *)
(* mode, which runs the selected probers in the order sql, xss, csrf,      *)
(* headers, generates a report and computes the overall score.             *)
(*                                                                         *)
(* Python values are modelled as records tagged by "type": None, a dict    *)
(* (its items a record keyed by the dict's keys), and Absent for a key     *)
(* that is not in comprehensive_results.  Lists are sequences.  The        *)
(* browser, the HTTP fetcher and the file system are the environment:      *)
(* what they answer is drawn with \E in the action that asks them.         *)
(***************************************************************************)
EXTENDS Integers, Sequences, FiniteSets, TLC

VARIABLES
    mode,                   \* operation mode main() dispatches on
    config,                 \* context["config"], read-only during the run
    has_logger,             \* whether context holds a "logger"
    site,                   \* the target site: its forms, cookies and headers
    pc,                     \* position of the running mode
    comprehensive_results,  \* run_comprehensive_mode's result map
    called,                 \* categories whose prober has been invoked
    raised,                 \* categories whose prober raised to its caller
    sql,                    \* activation of run_sql_injection_mode
    xss,                    \* activation of run_xss_mode
    csrf,                   \* activation of run_csrf_mode
    headers,                \* activation of run_headers_mode
    score_in,               \* argument of a direct call of a pure function
    submit,                 \* activation of run_submit_mode
    setup                   \* activation of utils.setup_driver

vars == <<mode, config, has_logger, site, pc, comprehensive_results, called, raised,
          sql, xss, csrf, headers, score_in, submit, setup>>

(***************************************************************************)
(* Bounds of the model.                                                    *)
(***************************************************************************)
\* largest max_attempts_per_field setting tried
MaxAttempts == 3
\* longest finding list handed directly to calculate_security_score
MaxFindings == 3
\* most submissions of a run of the submission mode
MaxSubmissions == 3
\* most tokens in a Referrer-Policy value handed to analyze_header
MaxPolicies == 2
\* most cookies in the jar of a page handed to the CSRF analyzer
MaxCookies == 2
\* most forms on a page handed to the CSRF analyzer
MaxForms == 2

(***************************************************************************)
(* Python values.                                                          *)
(***************************************************************************)
None == [type |-> "NoneType"]

Absent == [type |-> "absent"]

Dict(items) == [type |-> "dict", items |-> items]

EmptyDict == [type |-> "dict", items |-> [k \in {} |-> None]]

\* k in d, for a dict d
HasKey(d, k) == k \in DOMAIN d.items

\* d.get(k, default), for a dict d
Get(d, k, default) == IF k \in DOMAIN d.items THEN d.items[k] ELSE default

\* d[k] = v, for a dict d
SetItem(d, k, v) ==
    [type |-> "dict",
     items |-> [x \in (DOMAIN d.items) \cup {k} |-> IF x = k THEN v ELSE d.items[x]]]

Max(a, b) == IF a >= b THEN a ELSE b

Min(a, b) == IF a <= b THEN a ELSE b

RECURSIVE Concat(_)
\* the concatenation of a sequence of sequences (list.extend in a loop,
\* "".join), halving the sequence
Concat(ss) ==
    IF Len(ss) = 0 THEN <<>>
    ELSE IF Len(ss) = 1 THEN ss[1]
    ELSE Concat(SubSeq(ss, 1, Len(ss) \div 2))
         \o Concat(SubSeq(ss, Len(ss) \div 2 + 1, Len(ss)))

\* random.sample(population, k): k distinct positions, in any order
Sample(population, k) ==
    { [i \in 1..k |-> population[f[i]]] :
        f \in { g \in [1..k -> 1..Len(population)] :
                  \A i, j \in 1..k : i # j => g[i] # g[j] } }

(***************************************************************************)
(* Configuration.                                                          *)
(***************************************************************************)
Categories == <<"sql", "xss", "csrf", "headers">>

\* the key of comprehensive_results that holds a category's result
SlotOf(cat) ==
    CASE cat = "sql" -> "sql_injection_results"
      [] cat = "xss" -> "xss_results"
      [] cat = "csrf" -> "csrf_results"
      [] cat = "headers" -> "headers_results"

Slots == <<"sql_injection_results", "xss_results", "csrf_results", "headers_results">>

\* a field of config["fields"]; selector "" stands for no selector
Field(name, type, selector, required) ==
    [name |-> name, type |-> type, selector |-> selector, required |-> required]

CommentField == Field("comment", "css", "#comment", FALSE)

EmailField == Field("email", "xpath", "//input[@name='email']", TRUE)

AgreeField == Field("agree", "checkbox", "#agree", TRUE)

PhoneField == Field("phone", "css", "", FALSE)

SubmitButton == Field("submit_button", "css", "#go", FALSE)

\* a prober's settings bag
Settings(test_all_fields, max_attempts_per_field, payload_categories) ==
    [test_all_fields |-> test_all_fields,
     max_attempts_per_field |-> max_attempts_per_field,
     payload_categories |-> payload_categories]

(***************************************************************************)
(* The caller of a category prober: main(), or run_comprehensive_mode.     *)
(***************************************************************************)
\* the KeyError of context["logger"] when context holds no logger
LoggerKeyError == [webdriver |-> FALSE, text |-> "'logger'"]

\* the WebDriverException a failed browser start raises
BrowserError == [webdriver |-> TRUE, text |-> "session not created"]

\* the dict an except clause of run_comprehensive_mode stores for exception e
ErrorResult(e) ==
    Dict([error |-> [prefix |-> IF e.webdriver THEN "WebDriver error: " ELSE "",
                     text |-> e.text]])

RECURSIVE FirstSelected(_, _)
\* the first category at or after position i that is in tests_to_run
FirstSelected(i, tests) ==
    IF i > Len(Categories) THEN "report"
    ELSE IF Categories[i] \in tests THEN Categories[i]
    ELSE FirstSelected(i + 1, tests)

\* position of a category in the order sql, xss, csrf, headers
Position(cat) == CHOOSE i \in 1..Len(Categories) : Categories[i] = cat

\* where run_comprehensive_mode continues once category cat is over
AfterCategory(cat) ==
    FirstSelected(Position(cat) + 1, config.comprehensive_settings.tests)

\* the prober of category cat returns value to its caller
Return(cat, value) ==
    IF mode = "comprehensive"
    THEN /\ comprehensive_results' =
              [comprehensive_results EXCEPT ![SlotOf(cat)] = value]
         /\ pc' = AfterCategory(cat)
         /\ raised' = raised
    ELSE /\ pc' = "done"
         /\ UNCHANGED <<comprehensive_results, raised>>

\* a caller without the except clauses of lines 66-72, 91-97, 116-122 and
\* 136-142: an exception of a prober ends the run
RaiseUncaught(cat, e) ==
    /\ pc' = "crashed"
    /\ raised' = raised \cup {cat}
    /\ UNCHANGED comprehensive_results

\* the prober of category cat raises e to its caller
Raise(cat, e) ==
    IF mode = "comprehensive"
    THEN /\ comprehensive_results' =
              [comprehensive_results EXCEPT ![SlotOf(cat)] = ErrorResult(e)]
         /\ pc' = AfterCategory(cat)
         /\ raised' = raised \cup {cat}
    ELSE /\ pc' = "crashed"
         /\ raised' = raised \cup {cat}
         /\ UNCHANGED comprehensive_results

\* the key of config and of comprehensive_settings that holds the settings of
\* a category; the header analyzer has none
OverrideKey(cat) ==
    CASE cat = "sql" -> "sql_injection_settings"
      [] cat = "xss" -> "xss_settings"
      [] cat = "csrf" -> "csrf_settings"
      [] OTHER -> ""

\* lines 55-56, 80-81, 105-106: cfg with the settings of category cat
\* replaced by the override comprehensive_settings carries, if any
Overridden(cfg, cat) ==
    IF OverrideKey(cat) = "" THEN cfg
    ELSE IF cfg.comprehensive_settings[OverrideKey(cat)] = Absent THEN cfg
    ELSE [cfg EXCEPT ![OverrideKey(cat)] = cfg.comprehensive_settings[OverrideKey(cat)]]

\* the config of the context a prober is called with: main() passes its own,
\* the comprehensive run a copy with the override written into it
ContextConfig(cat) ==
    IF mode = "comprehensive" THEN Overridden(config, cat) ELSE config

\* the caller's config if the override were written into it, not into a copy
OverriddenInPlace(cfg, cat) == Overridden(cfg, cat)

\* lines 52, 77, 102, 127: the caller's config once the context of category
\* cat is prepared: the override went into config.copy(), the caller's dict
\* keeps its items
CallerConfig(cfg, cat) == cfg

(***************************************************************************)
(* SQL injection prober (mode_sql_inject.py).                              *)
(***************************************************************************)
SQL_INJECTION_PAYLOADS ==
    [basic |-> << "' OR '1'='1", "' OR '1'='1' --", "' OR '1'='1' /*",
                  "' OR '1'='1'; --", "admin' --", "admin' #" >>,
     error |-> << "' AND 1=CONVERT(int,(SELECT @@VERSION)) --",
                  "' AND 1=CONVERT(int,'a') --",
                  "' AND 1=(SELECT COUNT(*) FROM sysusers AS sys1, sysusers as sys2, sysusers as sys3) --" >>,
     time |-> << "'; WAITFOR DELAY '0:0:2' --",
                 "'; IF 1=1 WAITFOR DELAY '0:0:2' --" >>,
     stacked |-> << "'; INSERT INTO users (username, password) VALUES ('hacker', 'password'); --",
                    "'; DELETE FROM users WHERE username='test'; --",
                    "'; DROP TABLE users; --" >>,
     complex |-> << "' AND (SELECT 'x' FROM USERS WHERE 1=1 AND ROWNUM<2) IS NOT NULL --",
                    "' HAVING 1=1 --",
                    "' GROUP BY columnnames HAVING 1=1 --",
                    "' SELECT name FROM syscolumns WHERE id = (SELECT id FROM sysobjects WHERE name = 'tablename') --" >>,
     nosql |-> << "' || 1==1", "' && 1==1", "'; return true; var foo='",
                  "'; return false; var foo='" >>,
     xss |-> << "'><script>alert(1)</script>",
                "' UNION SELECT '<script>alert(1)</script>', NULL, NULL, NULL --" >>,
     encoding |-> << "'%20OR%20'1'%3D'1'",
                     "' UNION%20SELECT%20'1'%2C'2'%2C'3'%2C'4'--" >>]

\* list(SQL_INJECTION_PAYLOADS.keys())
SqlDefaultCategories ==
    <<"basic", "error", "time", "stacked", "complex", "nosql", "xss", "encoding">>

\* the error signatures, in the order they are tried
error_patterns ==
    << "sql syntax", "unclosed quotation", "unterminated string",
       "sql error", "syntax error", "mysql error", "postgresql error",
       "database error", "odbc driver", "ora-", "line \\d+", "syntax error",
       "unexpected end", "warning:", "invalid query", "sql state",
       "microsoft sql", "postgres error", "mysqli", "mysql_query" >>

\* A page source, as the set of positions of error_patterns that re.search
\* finds in its lower-cased text: no signature, "sql syntax error near ...",
\* a mysqli warning ("warning: mysqli_query()").
PageSignatureSets == { {}, {1, 5, 12}, {14, 19} }

\* the fields a prober tests: every field but submit_button and checkboxes
TextFields(fields) ==
    SelectSeq(fields, LAMBDA f : f.name # "submit_button" /\ f.type # "checkbox")

\* the payloads of the selected categories, in order
SqlPayloads(payload_categories) ==
    Concat([i \in 1..Len(payload_categories) |->
              IF payload_categories[i] \in DOMAIN SQL_INJECTION_PAYLOADS
              THEN SQL_INJECTION_PAYLOADS[payload_categories[i]]
              ELSE <<>>])

\* a payload list that ignores max_attempts_per_field
AllPayloads(payloads, max_attempts_per_field) == {payloads}

\* lines 141-144: the payload lists a field may be tested with: all, or a
\* random sample of max_attempts_per_field
LimitPayloads(payloads, max_attempts_per_field) ==
    IF max_attempts_per_field > 0 /\ max_attempts_per_field < Len(payloads)
    THEN Sample(payloads, max_attempts_per_field)
    ELSE {payloads}

\* the selector of config["fields"]["submit_button"], "" when there is none
SubmitSelector(fields) ==
    LET sb == SelectSeq(fields, LAMBDA f : f.name = "submit_button")
    IN  IF sb = <<>> THEN "" ELSE sb[1].selector

SqlFinding(field_name, payload, pattern, url) ==
    [field |-> field_name, payload |-> payload,
     pattern_matched |-> pattern, url |-> url]

RECURSIVE ScanAllErrorPatterns(_, _, _, _, _)
\* a scan without the break of line 219: every pattern found records a finding
ScanAllErrorPatterns(i, matched, field_name, payload, url) ==
    IF i > Len(error_patterns) THEN <<>>
    ELSE IF i \in matched
    THEN <<SqlFinding(field_name, payload, error_patterns[i], url)>>
         \o ScanAllErrorPatterns(i + 1, matched, field_name, payload, url)
    ELSE ScanAllErrorPatterns(i + 1, matched, field_name, payload, url)

RECURSIVE ScanErrorPatterns(_, _, _, _, _)
\* the findings one evaluation appends: for pattern in error_patterns, from
\* position i on; the first pattern found records a finding and breaks
ScanErrorPatterns(i, matched, field_name, payload, url) ==
    IF i > Len(error_patterns) THEN <<>>
    ELSE IF i \in matched
    THEN <<SqlFinding(field_name, payload, error_patterns[i], url)>>
    ELSE ScanErrorPatterns(i + 1, matched, field_name, payload, url)

\* what became of a trial: which steps it reached, how many signatures the
\* evaluated page held and how many findings the trial recorded
NoTrial ==
    [loaded |-> FALSE, filled |-> FALSE, clicked |-> FALSE,
     evaluated |-> FALSE, signatures |-> 0, recorded |-> 0]

\* the outcomes of locating and filling the field under test
FieldOutcomes == {"ok", "timeout", "not_interactable", "error"}

\* the outcomes of locating and clicking the submit control
SubmitOutcomes == {"clicked", "timeout", "error"}

\* a trial given what the browser did: the field under test could be filled
\* or not, the submit control (if configured) clicked or not
TrialReached(field_outcome, submit_selector, submit_outcome) ==
    LET filled == field_outcome = "ok"
        clicked == filled /\ submit_selector # "" /\ submit_outcome = "clicked"
        evaluated == filled /\ (submit_selector = "" \/ submit_outcome # "error")
    IN  [loaded |-> TRUE, filled |-> filled, clicked |-> clicked,
         evaluated |-> evaluated, signatures |-> 0, recorded |-> 0]

\* config: context["config"] of the call
\* the early exit if it did not ask for a finding
StopWithoutFinding(test_all_fields, findings) == ~test_all_fields

\* mode_sql_inject.py lines 231-232, mode_xss.py lines 318-319: whether the
\* loop over the fields breaks after a field's payloads
StopAfterField(test_all_fields, findings) == ~test_all_fields /\ findings # <<>>

\* the prober state if a trial that ends early ended its field's payloads too
AbortField(p) == [p EXCEPT !.total_tests = @ + 1, !.pi = Len(p.payloads) + 1]

\* a trial that ends in an except clause of the inner try: it was counted
\* when it began, the clause logs, the loop goes on with the next payload
SkipTrial(p) == [p EXCEPT !.total_tests = @ + 1, !.pi = @ + 1]

SqlIdle ==
    [pc |-> "idle", config |-> Absent, driver |-> "none", total_tests |-> 0,
     suspicious_responses |-> <<>>, fi |-> 0, payloads |-> <<>>, pi |-> 0,
     trial |-> NoTrial, evidence_trials |-> 0, load_failed |-> FALSE, ret |-> Absent]

\* the value run_sql_injection_mode returns after its report
SqlResult(total_tests, suspicious_responses) == None

\* lines 94-117: no URL returns at once; the browser is set up outside the try
SqlBegin ==
    /\ pc = "sql" /\ sql.pc = "idle"
    /\ called' = called \cup {"sql"}
    /\ config' = CallerConfig(config, "sql")
    /\ UNCHANGED <<mode, has_logger, site, xss, csrf, headers, score_in, submit, setup>>
    /\ IF ContextConfig("sql").url = ""
       THEN /\ sql' = [sql EXCEPT !.pc = "returned", !.ret = None]
            /\ Return("sql", None)
       ELSE \E browser_ok \in BOOLEAN :
              IF ~browser_ok
              THEN /\ sql' = [sql EXCEPT !.pc = "raised"]
                   /\ Raise("sql", BrowserError)
              ELSE /\ sql' = [sql EXCEPT !.pc = "fields", !.driver = "open", !.fi = 1,
                                          !.config = ContextConfig("sql")]
                   /\ UNCHANGED <<pc, comprehensive_results, raised>>

\* lines 125-144: the next field of text_fields; a field with no selector is
\* skipped, otherwise its payload list is built
SqlNextField ==
    /\ pc = "sql" /\ sql.pc = "fields"
    /\ UNCHANGED <<mode, config, has_logger, site, pc, comprehensive_results, called, raised,
                   xss, csrf, headers, score_in, submit, setup>>
    /\ LET text_fields == TextFields(sql.config.fields)
           s == sql.config.sql_injection_settings
       IN  IF sql.fi > Len(text_fields)
           THEN sql' = [sql EXCEPT !.pc = "finish"]
           ELSE IF text_fields[sql.fi].selector = ""
           THEN sql' = [sql EXCEPT !.fi = @ + 1]
           ELSE \E payloads \in LimitPayloads(SqlPayloads(s.payload_categories),
                                              s.max_attempts_per_field) :
                  sql' = [sql EXCEPT !.pc = "payloads", !.payloads = payloads, !.pi = 1]

\* lines 147-229: one trial, of payload pi on field fi
SqlTrial ==
    /\ pc = "sql" /\ sql.pc = "payloads" /\ sql.pi <= Len(sql.payloads)
    /\ UNCHANGED <<mode, config, has_logger, site, pc, comprehensive_results, called, raised,
                   xss, csrf, headers, score_in, submit, setup>>
    /\ LET field_name == TextFields(sql.config.fields)[sql.fi].name
           payload == sql.payloads[sql.pi]
           \* the trial is over without an evaluation: continue with the next
           Continue(reached) ==
               sql' = [SkipTrial(sql) EXCEPT !.trial = reached]
           \* line 199: the page source is read and scanned
           Evaluate(reached) ==
               \E matched \in PageSignatureSets :
                 LET found == ScanErrorPatterns(1, matched, field_name, payload,
                                                sql.config.url)
                 IN  sql' = [sql EXCEPT
                          !.total_tests = @ + 1,
                          !.suspicious_responses = @ \o found,
                          !.pi = @ + 1,
                          !.evidence_trials = @ + (IF matched # {} THEN 1 ELSE 0),
                          !.trial = [reached EXCEPT !.signatures = Cardinality(matched),
                                                    !.recorded = Len(found)]]
       IN  \E load_ok \in BOOLEAN :
             IF ~load_ok
             THEN \* driver.get raises: caught by the outer try, the run ends
                  sql' = [sql EXCEPT !.total_tests = @ + 1, !.pc = "finish",
                                     !.trial = NoTrial, !.load_failed = TRUE]
             ELSE \E field_outcome \in FieldOutcomes :
                    IF field_outcome # "ok"
                    THEN Continue(TrialReached(field_outcome, "", "clicked"))
                    ELSE IF SubmitSelector(sql.config.fields) = ""
                    THEN Evaluate(TrialReached("ok", "", "clicked"))
                    ELSE \E submit_outcome \in SubmitOutcomes :
                           LET reached == TrialReached("ok",
                                                       SubmitSelector(sql.config.fields),
                                                       submit_outcome)
                           IN  IF reached.evaluated THEN Evaluate(reached)
                               ELSE Continue(reached)

\* lines 231-234: after a field's payloads, stop if a finding exists and
\* test_all_fields is off, else go on with the next field
SqlFieldDone ==
    /\ pc = "sql" /\ sql.pc = "payloads" /\ sql.pi > Len(sql.payloads)
    /\ UNCHANGED <<mode, config, has_logger, site, pc, comprehensive_results, called, raised,
                   xss, csrf, headers, score_in, submit, setup>>
    /\ IF StopAfterField(sql.config.sql_injection_settings.test_all_fields,
                         sql.suspicious_responses)
       THEN sql' = [sql EXCEPT !.pc = "finish"]
       ELSE sql' = [sql EXCEPT !.pc = "fields", !.fi = @ + 1]

\* lines 238-255: finally quit the browser, log the report, return; the
\* loop's locals end with the call
SqlFinish ==
    /\ pc = "sql" /\ sql.pc = "finish"
    /\ sql' = [sql EXCEPT !.pc = "returned", !.driver = "quit",
                          !.fi = 0, !.payloads = <<>>, !.pi = 0, !.trial = NoTrial,
                          !.ret = SqlResult(sql.total_tests, sql.suspicious_responses)]
    /\ Return("sql", SqlResult(sql.total_tests, sql.suspicious_responses))
    /\ UNCHANGED <<mode, config, has_logger, site, called, xss, csrf, headers, score_in,
                   submit, setup>>

(***************************************************************************)
(* XSS prober (mode_xss.py).                                               *)
(***************************************************************************)
XSS_PAYLOADS ==
    [basic |-> << "<script>alert(1)</script>",
                  "<img src=x onerror=alert(1)>",
                  "<div onmouseover='alert(1)'>hover me</div>",
                  "javascript:alert(1)" >>,
     attribute |-> << "\" onmouseover=\"alert(1)\"",
                      "' onclick='alert(1)'",
                      "\"><script>alert(1)</script>",
                      "';alert(1);//" >>,
     encoded |-> << "<script>eval(String.fromCharCode(97,108,101,114,116,40,49,41))</script>",
                    "<img src=\"x\" onerror=\"&#97;&#108;&#101;&#114;&#116;&#40;&#49;&#41;\">",
                    "<svg onload=alert&#40;1&#41;>",
                    "%3Cscript%3Ealert(1)%3C/script%3E" >>,
     dom |-> << "#<script>alert(1)</script>",
                "?q=<script>alert(1)</script>",
                "javascript:void(0/**/);alert(1)" >>,
     evasion |-> << "<scr<script>ipt>alert(1)</scr</script>ipt>",
                    "<script>setTimeout('ale'+'rt(1)',0)</script>",
                    "<img src=x:alert(alt) onerror=eval(src) alt=1>",
                    "<script>/* */alert(1)/* */</script>" >>]

\* the characters of each catalog payload, one per position
PayloadChars ==
    "<script>alert(1)</script>" :>
          << "<", "s", "c", "r", "i", "p", "t", ">", "a", "l", "e", "r", "t", "(", "1", ")",
             "<", "/", "s", "c", "r", "i", "p", "t", ">" >>
    @@
    "<img src=x onerror=alert(1)>" :>
          << "<", "i", "m", "g", " ", "s", "r", "c", "=", "x", " ", "o", "n", "e", "r", "r",
             "o", "r", "=", "a", "l", "e", "r", "t", "(", "1", ")", ">" >>
    @@
    "<div onmouseover='alert(1)'>hover me</div>" :>
          << "<", "d", "i", "v", " ", "o", "n", "m", "o", "u", "s", "e", "o", "v", "e", "r",
             "=", "'", "a", "l", "e", "r", "t", "(", "1", ")", "'", ">", "h", "o", "v", "e",
             "r", " ", "m", "e", "<", "/", "d", "i", "v", ">" >>
    @@
    "javascript:alert(1)" :>
          << "j", "a", "v", "a", "s", "c", "r", "i", "p", "t", ":", "a", "l", "e", "r", "t",
             "(", "1", ")" >>
    @@
    "\" onmouseover=\"alert(1)\"" :>
          << "\"", " ", "o", "n", "m", "o", "u", "s", "e", "o", "v", "e", "r", "=", "\"",
             "a", "l", "e", "r", "t", "(", "1", ")", "\"" >>
    @@
    "' onclick='alert(1)'" :>
          << "'", " ", "o", "n", "c", "l", "i", "c", "k", "=", "'", "a", "l", "e", "r", "t",
             "(", "1", ")", "'" >>
    @@
    "\"><script>alert(1)</script>" :>
          << "\"", ">", "<", "s", "c", "r", "i", "p", "t", ">", "a", "l", "e", "r", "t",
             "(", "1", ")", "<", "/", "s", "c", "r", "i", "p", "t", ">" >>
    @@
    "';alert(1);//" :>
          << "'", ";", "a", "l", "e", "r", "t", "(", "1", ")", ";", "/", "/" >>
    @@
    "<script>eval(String.fromCharCode(97,108,101,114,116,40,49,41))</script>" :>
          << "<", "s", "c", "r", "i", "p", "t", ">", "e", "v", "a", "l", "(", "S", "t", "r",
             "i", "n", "g", ".", "f", "r", "o", "m", "C", "h", "a", "r", "C", "o", "d", "e",
             "(", "9", "7", ",", "1", "0", "8", ",", "1", "0", "1", ",", "1", "1", "4", ",",
             "1", "1", "6", ",", "4", "0", ",", "4", "9", ",", "4", "1", ")", ")", "<", "/",
             "s", "c", "r", "i", "p", "t", ">" >>
    @@
    "<img src=\"x\" onerror=\"&#97;&#108;&#101;&#114;&#116;&#40;&#49;&#41;\">" :>
          << "<", "i", "m", "g", " ", "s", "r", "c", "=", "\"", "x", "\"", " ", "o", "n",
             "e", "r", "r", "o", "r", "=", "\"", "&", "#", "9", "7", ";", "&", "#", "1",
             "0", "8", ";", "&", "#", "1", "0", "1", ";", "&", "#", "1", "1", "4", ";", "&",
             "#", "1", "1", "6", ";", "&", "#", "4", "0", ";", "&", "#", "4", "9", ";", "&",
             "#", "4", "1", ";", "\"", ">" >>
    @@
    "<svg onload=alert&#40;1&#41;>" :>
          << "<", "s", "v", "g", " ", "o", "n", "l", "o", "a", "d", "=", "a", "l", "e", "r",
             "t", "&", "#", "4", "0", ";", "1", "&", "#", "4", "1", ";", ">" >>
    @@
    "%3Cscript%3Ealert(1)%3C/script%3E" :>
          << "%", "3", "C", "s", "c", "r", "i", "p", "t", "%", "3", "E", "a", "l", "e", "r",
             "t", "(", "1", ")", "%", "3", "C", "/", "s", "c", "r", "i", "p", "t", "%", "3",
             "E" >>
    @@
    "#<script>alert(1)</script>" :>
          << "#", "<", "s", "c", "r", "i", "p", "t", ">", "a", "l", "e", "r", "t", "(", "1",
             ")", "<", "/", "s", "c", "r", "i", "p", "t", ">" >>
    @@
    "?q=<script>alert(1)</script>" :>
          << "?", "q", "=", "<", "s", "c", "r", "i", "p", "t", ">", "a", "l", "e", "r", "t",
             "(", "1", ")", "<", "/", "s", "c", "r", "i", "p", "t", ">" >>
    @@
    "javascript:void(0/**/);alert(1)" :>
          << "j", "a", "v", "a", "s", "c", "r", "i", "p", "t", ":", "v", "o", "i", "d", "(",
             "0", "/", "*", "*", "/", ")", ";", "a", "l", "e", "r", "t", "(", "1", ")" >>
    @@
    "<scr<script>ipt>alert(1)</scr</script>ipt>" :>
          << "<", "s", "c", "r", "<", "s", "c", "r", "i", "p", "t", ">", "i", "p", "t", ">",
             "a", "l", "e", "r", "t", "(", "1", ")", "<", "/", "s", "c", "r", "<", "/", "s",
             "c", "r", "i", "p", "t", ">", "i", "p", "t", ">" >>
    @@
    "<script>setTimeout('ale'+'rt(1)',0)</script>" :>
          << "<", "s", "c", "r", "i", "p", "t", ">", "s", "e", "t", "T", "i", "m", "e", "o",
             "u", "t", "(", "'", "a", "l", "e", "'", "+", "'", "r", "t", "(", "1", ")", "'",
             ",", "0", ")", "<", "/", "s", "c", "r", "i", "p", "t", ">" >>
    @@
    "<img src=x:alert(alt) onerror=eval(src) alt=1>" :>
          << "<", "i", "m", "g", " ", "s", "r", "c", "=", "x", ":", "a", "l", "e", "r", "t",
             "(", "a", "l", "t", ")", " ", "o", "n", "e", "r", "r", "o", "r", "=", "e", "v",
             "a", "l", "(", "s", "r", "c", ")", " ", "a", "l", "t", "=", "1", ">" >>
    @@
    "<script>/* */alert(1)/* */</script>" :>
          << "<", "s", "c", "r", "i", "p", "t", ">", "/", "*", " ", "*", "/", "a", "l", "e",
             "r", "t", "(", "1", ")", "/", "*", " ", "*", "/", "<", "/", "s", "c", "r", "i",
             "p", "t", ">" >>

\* list(XSS_PAYLOADS.keys())
XssDefaultCategories == <<"basic", "attribute", "encoded", "dom", "evasion">>

\* the payloads of the selected categories, in order
XssPayloads(payload_categories) ==
    Concat([i \in 1..Len(payload_categories) |->
              IF payload_categories[i] \in DOMAIN XSS_PAYLOADS
              THEN XSS_PAYLOADS[payload_categories[i]]
              ELSE <<>>])

\* the characters re.escape puts a backslash before (Python 3.7 and later)
ReSpecialChars ==
    {"(", ")", "[", "]", "{", "}", "?", "*", "+", "-", "|", "^", "$", "\\",
     ".", "&", "~", "#", " "}

\* re.escape(text), text a sequence of characters
ReEscape(text) ==
    Concat([i \in 1..Len(text) |->
              IF text[i] \in ReSpecialChars THEN <<"\\", text[i]>> ELSE <<text[i]>>])

\* text[i:].startswith(old)
StartsAt(text, i, old) ==
    /\ i + Len(old) - 1 <= Len(text)
    /\ \A k \in 1..Len(old) : text[i + k - 1] = old[k]

\* text.replace(old, new), for an old that cannot overlap itself (as a
\* backslash followed by another character): every occurrence is replaced
Replace(text, old, new) ==
    Concat([i \in 1..Len(text) |->
              IF StartsAt(text, i, old) THEN new
              ELSE IF \E j \in 1..(Len(old) - 1) : i - j >= 1 /\ StartsAt(text, i - j, old)
              THEN <<>>
              ELSE <<text[i]>>])

\* the number of backslashes that immediately precede position i
BackslashRun(pattern, i) ==
    CHOOSE r \in 0..(i - 1) :
        /\ \A j \in (i - r)..(i - 1) : pattern[j] = "\\"
        /\ r = i - 1 \/ pattern[i - r - 1] # "\\"

\* the characters a pattern of escaped literals stands for: a backslash
\* that is not itself escaped makes the next character literal, any other
\* character stands for itself
ReLiterals(pattern) ==
    Concat([i \in 1..Len(pattern) |->
              IF /\ pattern[i] = "\\" /\ i < Len(pattern)
                 /\ BackslashRun(pattern, i) % 2 = 0
              THEN <<>>
              ELSE <<pattern[i]>>])

\* re.search(pattern, text) finds a match, for a pattern in which every
\* regex metacharacter is escaped (re.escape leaves no other)
ReSearch(pattern, text) ==
    LET lit == ReLiterals(pattern)
    IN  \E i \in 1..(Len(text) + 1) : StartsAt(text, i, lit)

\* the pattern of lines 295-296 for a payload
UnescapedPattern(payload_chars) ==
    Replace(Replace(ReEscape(payload_chars), <<"\\", "<">>, <<"<">>),
            <<"\\", ">">>, <<">">>)

\* the HTML-entity-escaped form of a text, as a page that sanitizes its input
\* writes it: & < > " ' become entities
HtmlEscape(text) ==
    Concat([i \in 1..Len(text) |->
              CASE text[i] = "&" -> <<"&", "a", "m", "p", ";">>
                [] text[i] = "<" -> <<"&", "l", "t", ";">>
                [] text[i] = ">" -> <<"&", "g", "t", ";">>
                [] text[i] = "\"" -> <<"&", "q", "u", "o", "t", ";">>
                [] text[i] = "'" -> <<"&", "#", "x", "2", "7", ";">>
                [] OTHER -> <<text[i]>>])

\* how the page returned after a submission shows the submitted payload
ReflectModes == {"raw", "escaped", "none"}

\* driver.page_source after submitting a payload to a page that reflects it
\* raw, reflects it HTML-entity-escaped, or does not reflect it
PageSource(payload_chars, reflect) ==
    <<"<", "p", ">">>
    \o (CASE reflect = "raw" -> payload_chars
          [] reflect = "escaped" -> HtmlEscape(payload_chars)
          [] OTHER -> <<>>)
    \o <<"<", "/", "p", ">">>

XssFinding(field_name, payload, type, url) ==
    [field |-> field_name, payload |-> payload, type |-> type, url |-> url]

\* a detector that also takes the entity-escaped payload for a reflection
FoundEscapedToo(payload_chars, page_source) ==
    \/ ReSearch(UnescapedPattern(payload_chars), page_source)
    \/ ReSearch(ReEscape(HtmlEscape(payload_chars)), page_source)

\* lines 295-298: is the payload found unescaped in the page source
FoundUnescaped(payload_chars, page_source) ==
    ReSearch(UnescapedPattern(payload_chars), page_source)

\* lines 290-298: for each catalog payload and each way the page shows it,
\* whether the unescaped-reflection detector finds the payload in the page
\* (tabulated once: @@ yields the table in explicit form)
ReflectionFound ==
    [pr \in (DOMAIN PayloadChars) \X ReflectModes |->
        FoundUnescaped(PayloadChars[pr[1]], PageSource(PayloadChars[pr[1]], pr[2]))]
    @@ [pr \in {} |-> FALSE]

\* an evaluation that records the reflection once for the page source and
\* once more for the alert it came with
XssEvaluatePerEvidence(field_name, payload, url, alert, reflect) ==
    (IF alert THEN <<XssFinding(field_name, payload, "alert", url)>> ELSE <<>>)
    \o (IF ReflectionFound[<<payload, reflect>>]
        THEN <<XssFinding(field_name, payload, "unescaped", url)>>
             \o (IF alert THEN <<XssFinding(field_name, payload, "unescaped", url)>>
                 ELSE <<>>)
        ELSE <<>>)

\* lines 270-306: the findings one evaluation appends, the alert detector
\* first, then the unescaped-reflection detector
XssEvaluate(field_name, payload, url, alert, reflect) ==
    (IF alert THEN <<XssFinding(field_name, payload, "alert", url)>> ELSE <<>>)
    \o (IF ReflectionFound[<<payload, reflect>>]
        THEN <<XssFinding(field_name, payload, "unescaped", url)>>
        ELSE <<>>)

NoXssTrial ==
    [loaded |-> FALSE, filled |-> FALSE, clicked |-> FALSE, evaluated |-> FALSE,
     payload |-> "", alert |-> FALSE, reflect |-> "none", recorded |-> <<>>]

\* config: context["config"] of the call
XssIdle ==
    [pc |-> "idle", config |-> Absent, driver |-> "none", total_tests |-> 0,
     xss_vulnerabilities |-> <<>>, fi |-> 0, payloads |-> <<>>, pi |-> 0,
     trial |-> NoXssTrial, load_failed |-> FALSE, ret |-> Absent]

\* lines 333-350: the dict run_xss_mode returns
XssResult(total_tests, xss_vulnerabilities) ==
    Dict([total_tests |-> total_tests, xss_vulnerabilities |-> xss_vulnerabilities])

\* line 172: the dict run_xss_mode returns when no URL is configured
XssNoUrlResult ==
    Dict([error |-> [prefix |-> "", text |-> "No URL defined"],
          xss_vulnerabilities |-> <<>>])

\* lines 165-188: no URL returns at once; the browser is set up outside the try
XssBegin ==
    /\ pc = "xss" /\ xss.pc = "idle"
    /\ called' = called \cup {"xss"}
    /\ config' = CallerConfig(config, "xss")
    /\ UNCHANGED <<mode, has_logger, site, sql, csrf, headers, score_in, submit, setup>>
    /\ IF ~has_logger
       THEN /\ xss' = [xss EXCEPT !.pc = "raised"]
            /\ Raise("xss", LoggerKeyError)
       ELSE IF ContextConfig("xss").url = ""
       THEN /\ xss' = [xss EXCEPT !.pc = "returned", !.ret = XssNoUrlResult]
            /\ Return("xss", XssNoUrlResult)
       ELSE \E browser_ok \in BOOLEAN :
              IF ~browser_ok
              THEN /\ xss' = [xss EXCEPT !.pc = "raised"]
                   /\ Raise("xss", BrowserError)
              ELSE /\ xss' = [xss EXCEPT !.pc = "fields", !.driver = "open", !.fi = 1,
                                          !.config = ContextConfig("xss")]
                   /\ UNCHANGED <<pc, comprehensive_results, raised>>

\* lines 196-215: the next field of text_fields; a field with no selector is
\* skipped, otherwise its payload list is built
XssNextField ==
    /\ pc = "xss" /\ xss.pc = "fields"
    /\ UNCHANGED <<mode, config, has_logger, site, pc, comprehensive_results, called, raised,
                   sql, csrf, headers, score_in, submit, setup>>
    /\ LET text_fields == TextFields(xss.config.fields)
           s == xss.config.xss_settings
       IN  IF xss.fi > Len(text_fields)
           THEN xss' = [xss EXCEPT !.pc = "finish"]
           ELSE IF text_fields[xss.fi].selector = ""
           THEN xss' = [xss EXCEPT !.fi = @ + 1]
           ELSE \E payloads \in LimitPayloads(XssPayloads(s.payload_categories),
                                              s.max_attempts_per_field) :
                  xss' = [xss EXCEPT !.pc = "payloads", !.payloads = payloads, !.pi = 1]

\* lines 218-316: one trial, of payload pi on field fi
XssTrial ==
    /\ pc = "xss" /\ xss.pc = "payloads" /\ xss.pi <= Len(xss.payloads)
    /\ UNCHANGED <<mode, config, has_logger, site, pc, comprehensive_results, called, raised,
                   sql, csrf, headers, score_in, submit, setup>>
    /\ LET field_name == TextFields(xss.config.fields)[xss.fi].name
           payload == xss.payloads[xss.pi]
           TrialOf(reached, alert, reflect, found) ==
               [loaded |-> TRUE, filled |-> reached.filled, clicked |-> reached.clicked,
                evaluated |-> reached.evaluated, payload |-> payload,
                alert |-> alert, reflect |-> reflect,
                recorded |-> [i \in 1..Len(found) |-> found[i].type]]
           \* the trial is over without an evaluation: continue with the next
           Continue(reached) ==
               xss' = [SkipTrial(xss) EXCEPT
                          !.trial = TrialOf(reached, FALSE, "none", <<>>)]
           \* lines 270-306: the alert is looked for and the page source scanned
           Evaluate(reached) ==
               \E alert \in BOOLEAN, reflect \in ReflectModes :
                 LET found == XssEvaluate(field_name, payload, xss.config.url, alert,
                                          reflect)
                 IN  xss' = [xss EXCEPT
                          !.total_tests = @ + 1,
                          !.xss_vulnerabilities = @ \o found,
                          !.pi = @ + 1,
                          !.trial = TrialOf(reached, alert, reflect, found)]
       IN  \E load_ok \in BOOLEAN :
             IF ~load_ok
             THEN \* driver.get raises: caught by the outer try, the run ends
                  xss' = [xss EXCEPT !.total_tests = @ + 1, !.pc = "finish",
                                     !.trial = NoXssTrial, !.load_failed = TRUE]
             ELSE \E field_outcome \in FieldOutcomes :
                    IF field_outcome # "ok"
                    THEN Continue(TrialReached(field_outcome, "", "clicked"))
                    ELSE IF SubmitSelector(xss.config.fields) = ""
                    THEN Evaluate(TrialReached("ok", "", "clicked"))
                    ELSE \E submit_outcome \in SubmitOutcomes :
                           LET reached == TrialReached("ok",
                                                       SubmitSelector(xss.config.fields),
                                                       submit_outcome)
                           IN  IF reached.evaluated THEN Evaluate(reached)
                               ELSE Continue(reached)

\* lines 318-321: after a field's payloads, stop if a finding exists and
\* test_all_fields is off, else go on with the next field
XssFieldDone ==
    /\ pc = "xss" /\ xss.pc = "payloads" /\ xss.pi > Len(xss.payloads)
    /\ UNCHANGED <<mode, config, has_logger, site, pc, comprehensive_results, called, raised,
                   sql, csrf, headers, score_in, submit, setup>>
    /\ IF StopAfterField(xss.config.xss_settings.test_all_fields,
                         xss.xss_vulnerabilities)
       THEN xss' = [xss EXCEPT !.pc = "finish"]
       ELSE xss' = [xss EXCEPT !.pc = "fields", !.fi = @ + 1]

\* lines 325-350: finally quit the browser, build and return the results; the
\* loop's locals end with the call
XssFinish ==
    /\ pc = "xss" /\ xss.pc = "finish"
    /\ xss' = [xss EXCEPT !.pc = "returned", !.driver = "quit",
                          !.fi = 0, !.payloads = <<>>, !.pi = 0, !.trial = NoXssTrial,
                          !.ret = XssResult(xss.total_tests, xss.xss_vulnerabilities)]
    /\ Return("xss", XssResult(xss.total_tests, xss.xss_vulnerabilities))
    /\ UNCHANGED <<mode, config, has_logger, site, called, sql, csrf, headers, score_in,
                   submit, setup>>

(***************************************************************************)
(* CSRF analyzer (mode_csrf.py).                                           *)
(***************************************************************************)
\* a form as extract_form_details returns it
Form(id, method, has_csrf_token) ==
    [id |-> id, method |-> method, has_csrf_token |-> has_csrf_token]

\* a cookie as driver.get_cookies() returns it
Cookie(secure, httpOnly, sameSite) ==
    [secure |-> secure, httpOnly |-> httpOnly, sameSite |-> sameSite]

RECURSIVE CookieScore(_)
\* lines 116-127: what the loop over the cookies adds to the score
CookieScore(cookies) ==
    IF cookies = <<>> THEN 0
    ELSE (IF Head(cookies).secure THEN 1 ELSE 0)
         + (IF Head(cookies).httpOnly THEN 1 ELSE 0)
         + (IF Head(cookies).sameSite \in {"Strict", "Lax"} THEN 2 ELSE 0)
         + CookieScore(Tail(cookies))

\* the levels if a score of 4 were not yet strong
StrongAboveFour(score) ==
    IF score > 4 THEN "strong" ELSE IF score >= 2 THEN "medium" ELSE "weak"

\* lines 139-144: the protection level of a score
ProtectionLevel(score) ==
    IF score >= 4 THEN "strong" ELSE IF score >= 2 THEN "medium" ELSE "weak"

check_for_csrf_protection(form, cookies, referer_policy) ==
    LET has_referer_protection ==
            referer_policy \in {"same-origin", "strict-origin",
                                "strict-origin-when-cross-origin"}
        score == CookieScore(cookies)
                 + (IF has_referer_protection THEN 1 ELSE 0)
                 + (IF form.has_csrf_token THEN 3 ELSE 0)
    IN  [has_csrf_token |-> form.has_csrf_token,
         has_samesite_cookie |->
             \E i \in 1..Len(cookies) : cookies[i].sameSite \in {"Strict", "Lax"},
         has_secure_cookie |-> \E i \in 1..Len(cookies) : cookies[i].secure,
         has_httponly_cookie |-> \E i \in 1..Len(cookies) : cookies[i].httpOnly,
         has_referer_protection |-> has_referer_protection,
         score |-> score,
         level |-> ProtectionLevel(score)]

test_csrf_vulnerability(form, cookies, referrer_policy) ==
    LET protection == check_for_csrf_protection(form, cookies, referrer_policy)
    IN  [form_id |-> form.id, method |-> form.method,
         vulnerable |-> protection.level # "strong",
         severity |-> CASE protection.level = "weak" -> "high"
                        [] protection.level = "medium" -> "medium"
                        [] OTHER -> "low",
         protection |-> protection]

RECURSIVE CsrfTestForms(_, _, _, _)
\* lines 264-286: the loop over the forms, from results r
CsrfTestForms(forms, cookies, referrer_policy, r) ==
    IF forms = <<>> THEN r
    ELSE LET form == Head(forms)
             counted == [r EXCEPT !.forms_tested = @ + 1]
             t == test_csrf_vulnerability(form, cookies, referrer_policy)
         IN  IF form.method = "get"
             THEN CsrfTestForms(Tail(forms), cookies, referrer_policy, counted)
             ELSE IF t.vulnerable
             THEN CsrfTestForms(Tail(forms), cookies, referrer_policy,
                    [counted EXCEPT !.vulnerabilities =
                        Append(@, [form_id |-> t.form_id, type |-> "csrf",
                                   severity |-> t.severity,
                                   protection |-> t.protection])])
             ELSE CsrfTestForms(Tail(forms), cookies, referrer_policy, counted)

\* lines 264-275: the test_result of every form the loop tests, in page order
CsrfTestResults(forms, cookies, referrer_policy) ==
    LET tested == SelectSeq(forms, LAMBDA form : form.method # "get")
    IN  [i \in 1..Len(tested) |->
            test_csrf_vulnerability(tested[i], cookies, referrer_policy)]

\* lines 233-240: the results run_csrf_mode starts from
CsrfInitialResults(url) ==
    [target_url |-> url, test_type |-> "csrf", forms_tested |-> 0,
     vulnerabilities |-> <<>>, success |-> TRUE]

\* line 230: the dict run_csrf_mode returns when no URL is configured
CsrfNoUrlResult ==
    Dict([success |-> FALSE, vulnerabilities |-> <<>>,
          error |-> [prefix |-> "", text |-> "No URL specified"]])

\* the result if a page without forms were reported as a failure
CsrfNoFormsIsError(url, forms, cookies, referrer_policy) ==
    IF forms = <<>>
    THEN Dict([success |-> FALSE, vulnerabilities |-> <<>>,
               error |-> [prefix |-> "", text |-> "No forms found"]])
    ELSE LET r == CsrfTestForms(forms, cookies, referrer_policy, CsrfInitialResults(url))
         IN  SetItem(Dict(r), "vulnerable", r.vulnerabilities # <<>>)

\* lines 255-306: the dict run_csrf_mode returns for a page that loaded
CsrfResult(url, forms, cookies, referrer_policy) ==
    IF forms = <<>>
    THEN Dict(CsrfInitialResults(url))
    ELSE LET r == CsrfTestForms(forms, cookies, referrer_policy, CsrfInitialResults(url))
         IN  SetItem(Dict(r), "vulnerable", r.vulnerabilities # <<>>)

\* line 301 after the except clause of lines 295-298: results has no
\* "vulnerable" key, the KeyError escapes run_csrf_mode
CsrfKeyError == [webdriver |-> FALSE, text |-> "'vulnerable'"]

\* extracted: line 255 has given the forms of the page
CsrfIdle ==
    [pc |-> "idle", driver |-> "none", extracted |-> FALSE, tested |-> <<>>,
     recorded |-> <<>>, ret |-> Absent]

\* run_csrf_mode, lines 220-306
RunCsrf ==
    /\ pc = "csrf" /\ csrf.pc = "idle"
    /\ called' = called \cup {"csrf"}
    /\ config' = CallerConfig(config, "csrf")
    /\ UNCHANGED <<mode, has_logger, site, sql, xss, headers, score_in, submit, setup>>
    /\ IF ~has_logger
       THEN /\ csrf' = [csrf EXCEPT !.pc = "raised"]
            /\ Raise("csrf", LoggerKeyError)
       ELSE IF ContextConfig("csrf").url = ""
       THEN /\ csrf' = [csrf EXCEPT !.pc = "returned", !.ret = CsrfNoUrlResult]
            /\ Return("csrf", CsrfNoUrlResult)
       ELSE \E browser_ok \in BOOLEAN, load_ok \in BOOLEAN :
              IF ~browser_ok \/ ~load_ok
              THEN /\ csrf' = [csrf EXCEPT !.pc = "raised",
                                  !.driver = IF browser_ok THEN "open" ELSE "none"]
                   /\ Raise("csrf", CsrfKeyError)
              ELSE LET r == CsrfResult(ContextConfig("csrf").url, site.forms,
                                       site.cookies, site.referrer_policy)
                   IN  /\ csrf' = [csrf EXCEPT
                              !.pc = "returned",
                              !.driver = IF site.forms = <<>> THEN "open" ELSE "quit",
                              !.extracted = TRUE,
                              !.tested = CsrfTestResults(site.forms, site.cookies,
                                                         site.referrer_policy),
                              !.recorded = r.items.vulnerabilities,
                              !.ret = r]
                       /\ Return("csrf", r)

(***************************************************************************)
(* Header analyzer (mode_headers.py).                                      *)
(***************************************************************************)
\* the catalog: each header's name and severity, in catalog order
SECURITY_HEADERS ==
    << [name |-> "Strict-Transport-Security", severity |-> "high"],
       [name |-> "Content-Security-Policy", severity |-> "high"],
       [name |-> "X-Content-Type-Options", severity |-> "medium"],
       [name |-> "X-Frame-Options", severity |-> "medium"],
       [name |-> "X-XSS-Protection", severity |-> "medium"],
       [name |-> "Referrer-Policy", severity |-> "medium"],
       [name |-> "Permissions-Policy", severity |-> "low"],
       [name |-> "Cache-Control", severity |-> "low"],
       [name |-> "Clear-Site-Data", severity |-> "low"] >>

\* lines 323-325: the weight of a severity
Weight(severity) ==
    IF severity = "high" THEN 3 ELSE IF severity = "medium" THEN 2 ELSE 1

\* the credit if a weak header earned its weight too
CreditedUnlessMissing(status) == status # "missing"

\* a status that earns a header its weight
Credited(status) == status \in {"present", "strong", "moderate"}

RECURSIVE SumWeights(_, _, _)
\* the sum over header_results[i..] of the weights, all or only the earned
SumWeights(header_results, i, earned_only) ==
    IF i > Len(header_results) THEN 0
    ELSE (IF ~earned_only \/ Credited(header_results[i].status)
          THEN Weight(header_results[i].severity) ELSE 0)
         + SumWeights(header_results, i + 1, earned_only)

\* urlparse(url).scheme
Scheme(url) ==
    CASE url = "https://example.test" -> "https"
      [] url = "http://example.test" -> "http"
      [] OTHER -> ""

\* what requests.get(http_url, allow_redirects=True) does: it raises, or its
\* response has the URL final_url
RequestOutcome(raises, final_url) == [raises |-> raises, final_url |-> final_url]

\* final_url.startswith('https://')
StartsWithHttps(final_url) ==
    CASE final_url = "https://example.test/" -> TRUE
      [] final_url = "https://www.example.test/home" -> TRUE
      [] final_url = "http://example.test/" -> FALSE
      [] final_url = "http://example.test/https://" -> FALSE
      [] OTHER -> FALSE

\* lines 229-236: whether check_https_redirection issues the plain-HTTP request
RedirectRequested(url) == Scheme(url) = "https"

\* the status if a request that raises counted as a failed redirect
RedirectErrorIsFailed(url, request_outcome) ==
    IF Scheme(url) # "https" THEN "skipped"
    ELSE IF ~request_outcome.raises /\ StartsWithHttps(request_outcome.final_url)
    THEN "passed"
    ELSE "failed"

\* check_https_redirection: the status, given what the plain-HTTP request does
check_https_redirection(url, request_outcome) ==
    IF Scheme(url) # "https" THEN "skipped"
    ELSE IF request_outcome.raises THEN "error"
    ELSE IF StartsWithHttps(request_outcome.final_url) THEN "passed"
    ELSE "failed"

\* lines 337-348
SecurityRating(security_score) ==
    IF security_score >= 90 THEN "excellent"
    ELSE IF security_score >= 75 THEN "good"
    ELSE IF security_score >= 50 THEN "fair"
    ELSE "poor"

RECURSIVE HeaderIssuesAnySeverity(_, _)
\* the issues if a missing header of any severity were reported
HeaderIssuesAnySeverity(header_results, i) ==
    IF i > Len(header_results) THEN <<>>
    ELSE LET h == header_results[i]
         IN  (IF h.status = "missing"
              THEN <<[type |-> "missing_header", header |-> h.name, severity |-> "high"]>>
              ELSE IF h.status \in {"weak", "invalid"} /\ h.severity = "high"
              THEN <<[type |-> "weak_header", header |-> h.name, severity |-> "medium"]>>
              ELSE <<>>)
             \o HeaderIssuesAnySeverity(header_results, i + 1)

RECURSIVE HeaderIssues(_, _)
\* lines 357-381: the issues of header_results[i..]
HeaderIssues(header_results, i) ==
    IF i > Len(header_results) THEN <<>>
    ELSE LET h == header_results[i]
         IN  (IF h.status = "missing" /\ h.severity = "high"
              THEN <<[type |-> "missing_header", header |-> h.name, severity |-> "high"]>>
              ELSE IF h.status \in {"weak", "invalid"} /\ h.severity = "high"
              THEN <<[type |-> "weak_header", header |-> h.name, severity |-> "medium"]>>
              ELSE <<>>)
             \o HeaderIssues(header_results, i + 1)

\* the result if a failed fetch were reported as a finding
HeadersFetchErrorWithIssue(url) ==
    Dict([target_url |-> url, test_type |-> "security_headers", headers_tested |-> 0,
          missing_headers |-> 0, weak_headers |-> 0, header_results |-> <<>>,
          success |-> FALSE,
          error |-> [prefix |-> "Failed to connect: ", text |-> "connection refused"],
          security_issues |-> <<[type |-> "unreachable", severity |-> "high"]>>])

\* lines 299-303: the dict run_headers_mode returns when the fetch fails
HeadersFetchError(url) ==
    Dict([target_url |-> url, test_type |-> "security_headers", headers_tested |-> 0,
          missing_headers |-> 0, weak_headers |-> 0, header_results |-> <<>>,
          success |-> FALSE,
          error |-> [prefix |-> "Failed to connect: ", text |-> "connection refused"]])

\* line 277: the dict run_headers_mode returns when no URL is configured
HeadersNoUrlResult ==
    Dict([success |-> FALSE, error |-> [prefix |-> "", text |-> "No URL specified"]])

\* lines 305-406: the dict run_headers_mode returns for a fetched response whose
\* headers evaluate_security_headers gave the statuses header_status
HeadersResult(url, header_status, request_outcome) ==
    LET header_results ==
            [i \in 1..Len(SECURITY_HEADERS) |->
                [name |-> SECURITY_HEADERS[i].name,
                 status |-> header_status[SECURITY_HEADERS[i].name],
                 severity |-> SECURITY_HEADERS[i].severity]]
        https_redirect == check_https_redirection(url, request_outcome)
        bonus == IF https_redirect = "passed" THEN 2 ELSE 0
        total_weight == SumWeights(header_results, 1, FALSE) + bonus
        earned_weight == SumWeights(header_results, 1, TRUE) + bonus
        \* line 336: int((earned_weight / total_weight) * 100); for the totals 17
        \* and 19 of the catalog the float quotient truncates to the same integer
        security_score ==
            IF total_weight > 0 THEN (earned_weight * 100) \div total_weight ELSE 0
        issues ==
            HeaderIssues(header_results, 1)
            \o (IF https_redirect = "failed"
                THEN <<[type |-> "http_not_redirected", severity |-> "high"]>>
                ELSE <<>>)
    IN  Dict([target_url |-> url, test_type |-> "security_headers",
              headers_tested |-> Len(header_results),
              missing_headers |->
                  Cardinality({i \in 1..Len(header_results) :
                                 header_results[i].status = "missing"}),
              weak_headers |->
                  Cardinality({i \in 1..Len(header_results) :
                                 header_results[i].status \in {"weak", "invalid"}}),
              header_results |-> [i \in 1..Len(header_results) |-> header_results[i].status],
              https_redirect |-> https_redirect,
              success |-> TRUE,
              security_score |-> security_score,
              security_rating |-> SecurityRating(security_score),
              vulnerabilities |-> issues,
              security_issues |-> issues,
              vulnerable |-> issues # <<>>])

\* fetch: how the request of lines 296-297 ended; http_requested:
\* check_https_redirection has issued its plain-HTTP request
HeadersIdle ==
    [pc |-> "idle", fetch |-> "none", http_requested |-> FALSE, recorded |-> <<>>,
     ret |-> Absent]

\* run_headers_mode, lines 267-406
RunHeaders ==
    /\ pc = "headers" /\ headers.pc = "idle"
    /\ called' = called \cup {"headers"}
    /\ config' = CallerConfig(config, "headers")
    /\ UNCHANGED <<mode, has_logger, site, sql, xss, csrf, score_in, submit, setup>>
    /\ IF ~has_logger
       THEN /\ headers' = [headers EXCEPT !.pc = "raised"]
            /\ Raise("headers", LoggerKeyError)
       ELSE IF ContextConfig("headers").url = ""
       THEN /\ headers' = [headers EXCEPT !.pc = "returned", !.ret = HeadersNoUrlResult]
            /\ Return("headers", HeadersNoUrlResult)
       ELSE \E fetch_ok \in BOOLEAN :
              LET url == ContextConfig("headers").url
                  r == IF fetch_ok
                       THEN HeadersResult(url, site.header_status, site.redirect)
                       ELSE HeadersFetchError(url)
              IN  /\ headers' = [headers EXCEPT
                         !.pc = "returned",
                         !.fetch = IF fetch_ok THEN "ok" ELSE "failed",
                         !.http_requested = fetch_ok /\ RedirectRequested(url),
                         !.recorded = Get(r, "security_issues", <<>>),
                         !.ret = r]
                  /\ Return("headers", r)

(***************************************************************************)
(* Aggregator and scorer (mode_comprehensive.py).                          *)
(***************************************************************************)
PyStr(text) == [type |-> "str", value |-> text]

PyInt(n) == [type |-> "int", value |-> n]

\* comprehensive_results = {}
NoResults ==
    [sql_injection_results |-> Absent, xss_results |-> Absent,
     csrf_results |-> Absent, headers_results |-> Absent,
     report_path |-> Absent, report_error |-> Absent, security_score |-> Absent]

\* results.get(slot, {}).get(key, []) with the None checks of lines 319-350:
\* the list that is counted
CountedList(results, slot, key) ==
    IF results[slot].type = "absent" THEN <<>>
    ELSE IF results[slot].type = "NoneType" THEN <<>>
    ELSE Get(results[slot], key, <<>>)

\* vuln.get("severity", "medium")
SeverityOf(vuln) == IF "severity" \in DOMAIN vuln THEN vuln.severity ELSE "medium"

RECURSIVE CountBySeverity(_, _)
\* lines 337-340, 347-350: severity_counts after the loop over a list
CountBySeverity(list, severity_counts) ==
    IF list = <<>> THEN severity_counts
    ELSE CountBySeverity(Tail(list),
            IF SeverityOf(Head(list)) \in DOMAIN severity_counts
            THEN [severity_counts EXCEPT ![SeverityOf(Head(list))] = @ + 1]
            ELSE severity_counts)

\* lines 307-350: the issues counted by severity
SeverityCounts(results) ==
    LET zero == [critical |-> 0, high |-> 0, medium |-> 0, low |-> 0]
        critical ==
            Len(CountedList(results, "sql_injection_results", "sql_vulnerabilities"))
            + Len(CountedList(results, "xss_results", "xss_vulnerabilities"))
        csrf_counted ==
            CountBySeverity(CountedList(results, "csrf_results", "csrf_vulnerabilities"),
                            [zero EXCEPT !.critical = critical])
    IN  CountBySeverity(CountedList(results, "headers_results", "security_issues"),
                        csrf_counted)

\* a deduction that takes low-severity issues for medium ones
DeductionLowAsMedium(severity_counts) ==
    severity_counts.critical * 15 + severity_counts.high * 10
    + severity_counts.medium * 5 + severity_counts.low * 5

\* lines 357-360: the points deducted
Deduction(severity_counts) ==
    severity_counts.critical * 15 + severity_counts.high * 10
    + severity_counts.medium * 5 + severity_counts.low * 1

\* a score that is not kept from going below 0
NoClamp(score) == score

\* line 363: the score never goes below 0
Clamp(score) == Max(0, score)

\* not results: the result map is an empty dict
IsEmptyResults(results) == \A k \in DOMAIN results : results[k].type = "absent"

calculate_security_score(results) ==
    IF IsEmptyResults(results) THEN 100
    ELSE Clamp(100 - Deduction(SeverityCounts(results)))

RECURSIVE NormalizeSlots(_, _)
\* lines 150-156: the loop over the four result slots from position i on; an
\* absent slot becomes {}, and testing "error" not in a slot that holds None
\* raises TypeError, which ends the loop
NormalizeSlots(results, i) ==
    IF i > Len(Slots) THEN [results |-> results, raised |-> FALSE]
    ELSE LET filled == IF results[Slots[i]].type = "absent"
                       THEN [results EXCEPT ![Slots[i]] = EmptyDict]
                       ELSE results
         IN  IF filled[Slots[i]].type = "NoneType"
             THEN [results |-> filled, raised |-> TRUE]
             ELSE NormalizeSlots(filled, i + 1)

\* lines 163-165: headers_results gets an empty security_issues list if it has none
EnsureSecurityIssues(results) ==
    IF results.headers_results.type = "dict"
       /\ ~HasKey(results.headers_results, "security_issues")
    THEN [results EXCEPT !.headers_results = SetItem(@, "security_issues", <<>>)]
    ELSE results

\* security_report.generate_report: the path it returns for a format
generate_report(format) ==
    CASE format = "both" -> "reports/report_ts"
      [] format = "html" -> "reports/report_ts/security_report.html"
      [] OTHER -> "reports/report_ts/security_report.json"

\* lines 28-46: without a URL the run returns {"error": "No URL defined"}
CompStart ==
    /\ mode = "comprehensive" /\ pc = "start"
    /\ pc' = IF config.url = "" THEN "no_url"
             ELSE FirstSelected(1, config.comprehensive_settings.tests)
    /\ UNCHANGED <<mode, config, has_logger, site, comprehensive_results, called,
                   raised, sql, xss, csrf, headers, score_in, submit, setup>>

\* lines 144-280: normalize the result map and generate the report
GenerateReport ==
    /\ mode = "comprehensive" /\ pc = "report"
    /\ pc' = "score"
    /\ LET n == NormalizeSlots(comprehensive_results, 1)
       IN  comprehensive_results' =
             IF n.raised
             THEN [n.results EXCEPT !.report_error =
                       PyStr("argument of type 'NoneType' is not iterable")]
             ELSE [EnsureSecurityIssues(n.results) EXCEPT !.report_path =
                       PyStr(generate_report(config.comprehensive_settings.report_format))]
    /\ UNCHANGED <<mode, config, has_logger, site, called, raised, sql, xss, csrf,
                   headers, score_in, submit, setup>>

\* lines 282-291: compute the overall score and return
ComputeScore ==
    /\ mode = "comprehensive" /\ pc = "score"
    /\ pc' = "done"
    /\ comprehensive_results' =
          [comprehensive_results EXCEPT !.security_score =
              PyInt(calculate_security_score(comprehensive_results))]
    /\ UNCHANGED <<mode, config, has_logger, site, called, raised, sql, xss, csrf,
                   headers, score_in, submit, setup>>

\* calculate_security_score called directly on a result map
DirectScore ==
    /\ mode = "score" /\ pc = "start"
    /\ pc' = "done"
    /\ comprehensive_results' =
          [comprehensive_results EXCEPT !.security_score =
              PyInt(calculate_security_score(score_in))]
    /\ UNCHANGED <<mode, config, has_logger, site, called, raised, sql, xss, csrf,
                   headers, score_in, submit, setup>>

(***************************************************************************)
(* utils.setup_driver (utils.py lines 254-354).                            *)
(***************************************************************************)
\* line 325
max_attempts == 3

\* how the creation of one browser can end: the constructor raises, the
\* browser is created and a timeout setting or the test command raises, or
\* the test command passes
AttemptOutcomes == {"create_failed", "test_failed", "passed"}

\* the exception an attempt that did not pass raises
AttemptError(attempt, outcome) == [error |-> outcome, attempt |-> attempt]

\* outcomes: how each attempt made so far ended; driver: the returned
\* driver; error: the exception raised to the caller
SetupIdle ==
    [pc |-> "idle", in_docker |-> FALSE, outcomes |-> <<>>, last_error |-> None,
     driver |-> None, error |-> None]

\* the attempts of an activation that created a browser
Created(s) == {k \in 1..Len(s.outcomes) : s.outcomes[k] # "create_failed"}

\* a failed attempt that is not the last is followed by another one
GiveUpAtOnce(attempt) == "raised"

\* lines 343-351: after the failure of an attempt, the loop goes on while
\* attempts are left, and the last error is raised after the loop
AfterFailure(attempt) == IF attempt < max_attempts THEN "retry" ELSE "raised"

\* lines 275-307: in Docker the browser is created once, without retry
SetupDocker ==
    /\ pc = "submit" /\ submit.pc = "setup"
    /\ setup.pc = "idle" /\ setup.in_docker
    /\ \E outcome \in AttemptOutcomes :
          setup' = IF outcome = "passed"
                   THEN [setup EXCEPT !.pc = "returned", !.outcomes = <<outcome>>,
                                      !.driver = [attempt |-> 1]]
                   ELSE [setup EXCEPT !.pc = "raised", !.outcomes = <<outcome>>,
                                      !.error = AttemptError(1, outcome)]
    /\ UNCHANGED <<mode, config, has_logger, site, pc, comprehensive_results, called,
                   raised, sql, xss, csrf, headers, score_in, submit>>

\* lines 324-351: one iteration of the retry loop outside Docker
SetupAttempt ==
    /\ pc = "submit" /\ submit.pc = "setup"
    /\ setup.pc \in {"idle", "retry"} /\ ~setup.in_docker
    /\ \E outcome \in AttemptOutcomes :
          LET attempt == Len(setup.outcomes) + 1
              e == AttemptError(attempt, outcome)
              next == AfterFailure(attempt)
          IN  setup' =
                IF outcome = "passed"
                THEN [setup EXCEPT !.pc = "returned",
                                   !.outcomes = Append(@, outcome),
                                   !.driver = [attempt |-> attempt]]
                ELSE [setup EXCEPT !.pc = next,
                                   !.outcomes = Append(@, outcome),
                                   !.last_error = e,
                                   !.error = IF next = "raised" THEN e ELSE None]
    /\ UNCHANGED <<mode, config, has_logger, site, pc, comprehensive_results, called,
                   raised, sql, xss, csrf, headers, score_in, submit>>

(***************************************************************************)
(* run_submit_mode (mode_submit.py lines 171-326).                         *)
(***************************************************************************)
\* line 200
max_consecutive_failures == 3

\* how a submission with a browser and configured fields can go: a Selenium
\* error or another exception on the way, an interrupt, no field filled, no
\* submit button found, or the button clicked
BodyOutcomes ==
    {"selenium_error", "unexpected_error", "interrupt", "none_filled",
     "no_submit_button", "submitted"}

\* open: the browsers created and not quit, by submission and attempt
SubmitIdle ==
    [pc |-> "idle", submission_count |-> 0, success_count |-> 0, failure_count |-> 0,
     consecutive_failures |-> 0, driver |-> None, open |-> {}, interrupted |-> FALSE]

\* lines 222-223, 254-255, 270-271, 275-276, 280-281
Failure(s) ==
    [s EXCEPT !.failure_count = @ + 1, !.consecutive_failures = @ + 1]

\* lines 265-266
Success(s) ==
    [s EXCEPT !.success_count = @ + 1, !.consecutive_failures = 0]

\* main.py lines 274-275 and lines 171-200: entry, URL check, counters
SubmitBegin ==
    /\ mode = "submit" /\ pc = "start"
    /\ pc' = "submit"
    /\ submit' = [SubmitIdle EXCEPT !.pc = IF config.url = "" THEN "returned" ELSE "loop"]
    /\ UNCHANGED <<mode, config, has_logger, site, comprehensive_results, called,
                   raised, sql, xss, csrf, headers, score_in, setup>>

\* lines 203-211: the loop starts a submission and calls setup_driver
SubmitLoop ==
    /\ pc = "submit" /\ submit.pc = "loop"
    /\ submit.submission_count < MaxSubmissions
    /\ submit' = [submit EXCEPT !.pc = "setup", !.submission_count = @ + 1,
                                !.driver = None]
    /\ setup' = [SetupIdle EXCEPT !.in_docker = setup.in_docker]
    /\ UNCHANGED <<mode, config, has_logger, site, pc, comprehensive_results, called,
                   raised, sql, xss, csrf, headers, score_in>>

\* lines 211-281: setup_driver has returned or raised; the page is loaded,
\* the fields are filled and the form is submitted
SubmitBody ==
    /\ pc = "submit" /\ submit.pc = "setup"
    /\ setup.pc \in {"returned", "raised"}
    /\ LET created == {[submission |-> submit.submission_count, attempt |-> k] :
                          k \in Created(setup)}
           s == [submit EXCEPT !.pc = "finally", !.driver = setup.driver,
                               !.open = @ \cup created]
       IN  IF setup.pc = "raised"
           THEN submit' = Failure(s)
           ELSE \E outcome \in BodyOutcomes :
                   submit' =
                     IF outcome = "interrupt" THEN [s EXCEPT !.interrupted = TRUE]
                     ELSE IF outcome \in {"selenium_error", "unexpected_error"}
                     THEN Failure(s)
                     ELSE IF config.fields = <<>> THEN Failure(s)
                     ELSE IF outcome \in {"none_filled", "no_submit_button"}
                     THEN Failure(s)
                     ELSE Success(s)
    /\ UNCHANGED <<mode, config, has_logger, site, pc, comprehensive_results, called,
                   raised, sql, xss, csrf, headers, score_in, setup>>

\* lines 283-311: the browser of this submission is quit (an error of
\* quit() is only logged), the failure streak is reset after the recovery
\* pause, and the run sleeps until the next submission unless interrupted
SubmitFinally ==
    /\ pc = "submit" /\ submit.pc = "finally"
    /\ \E sleep_interrupted \in BOOLEAN :
          LET quit == IF submit.driver = None THEN {}
                      ELSE {[submission |-> submit.submission_count,
                             attempt |-> submit.driver.attempt]}
              streak == IF submit.consecutive_failures >= max_consecutive_failures
                        THEN 0 ELSE submit.consecutive_failures
          IN  submit' = [submit EXCEPT
                           !.pc = IF submit.interrupted \/ sleep_interrupted
                                  THEN "returned" ELSE "loop",
                           !.open = @ \ quit,
                           !.consecutive_failures = streak]
    /\ UNCHANGED <<mode, config, has_logger, site, pc, comprehensive_results, called,
                   raised, sql, xss, csrf, headers, score_in, setup>>

(***************************************************************************)
(* main() (main.py).                                                       *)
(***************************************************************************)
\* main.py lines 275-285: a single-category mode calls its prober
Dispatch ==
    /\ mode \in {"sql_inject", "xss", "csrf", "headers"} /\ pc = "start"
    /\ pc' = (CASE mode = "sql_inject" -> "sql"
                [] mode = "xss" -> "xss"
                [] mode = "csrf" -> "csrf"
                [] OTHER -> "headers")
    /\ UNCHANGED <<mode, config, has_logger, site, comprehensive_results, called,
                   raised, sql, xss, csrf, headers, score_in, submit, setup>>

(***************************************************************************)
(* Configurations and target sites the runs are checked on.                *)
(***************************************************************************)
TargetUrl == "https://example.test"

\* config["fields"] of the runs checked
FieldLists ==
    { <<CommentField, SubmitButton>>,
      <<CommentField>>,
      <<CommentField, EmailField, SubmitButton>>,
      <<AgreeField, CommentField, SubmitButton>>,
      <<PhoneField, CommentField, SubmitButton>>,
      <<SubmitButton>> }

\* sql_injection_settings of the SQL prober runs checked
SqlSettings ==
    { Settings(t, m, <<"time">>) : t \in BOOLEAN, m \in 0..MaxAttempts }
    \cup { Settings(TRUE, 2, <<"basic">>), Settings(TRUE, 0, <<"blind">>) }

\* xss_settings of the XSS prober runs checked
XssSettings ==
    { Settings(t, m, <<"dom">>) : t \in BOOLEAN, m \in 0..MaxAttempts }
    \cup { Settings(FALSE, 1, XssDefaultCategories), Settings(TRUE, 0, <<"stored">>) }

\* a prober run with several payloads per field is checked on one field
\* that can be located, or with early exit on
FewTrials(fields, s) ==
    \/ Len(SelectSeq(TextFields(fields), LAMBDA f : f.selector # "")) <= 1
    \/ ~s.test_all_fields
    \/ s.max_attempts_per_field = 1

\* the fields and settings of the SQL prober runs checked
SqlConfigs ==
    { c \in FieldLists \X SqlSettings :
        /\ FewTrials(c[1], c[2])
        /\ c[2].payload_categories = <<"basic">> => Len(c[1]) = 2 }

\* the fields and settings of the XSS prober runs checked
XssConfigs ==
    { c \in FieldLists \X XssSettings :
        /\ FewTrials(c[1], c[2])
        /\ c[2].payload_categories = XssDefaultCategories => Len(c[1]) = 2 }

\* comprehensive_settings["tests"]
TestSelections == SUBSET {"sql", "xss", "csrf", "headers"}

\* evaluate_security_headers' status of every catalog header
AllHeaders(status) == [n \in {SECURITY_HEADERS[i].name : i \in 1..Len(SECURITY_HEADERS)} |-> status]

\* the target sites: forms and cookies of the page, the Referrer-Policy meta
\* tag, the header statuses and what the plain-HTTP request does
Sites ==
    { [forms |-> <<>>, cookies |-> <<>>, referrer_policy |-> "",
       header_status |-> AllHeaders("present"),
       redirect |-> RequestOutcome(FALSE, "https://example.test/")],
      [forms |-> <<Form("login", "post", FALSE), Form("signup", "post", FALSE)>>,
       cookies |-> <<>>, referrer_policy |-> "",
       header_status |-> AllHeaders("present"),
       redirect |-> RequestOutcome(FALSE, "https://example.test/")],
      [forms |-> <<Form("login", "post", FALSE), Form("search", "get", FALSE)>>,
       cookies |-> <<Cookie(TRUE, TRUE, "None")>>, referrer_policy |-> "",
       header_status |-> AllHeaders("missing"),
       redirect |-> RequestOutcome(FALSE, "http://example.test/")],
      [forms |-> <<Form("login", "post", TRUE)>>,
       cookies |-> <<Cookie(TRUE, TRUE, "Strict")>>, referrer_policy |-> "same-origin",
       header_status |-> [AllHeaders("present") EXCEPT
                             !["Strict-Transport-Security"] = "weak",
                             !["Content-Security-Policy"] = "missing"],
       redirect |-> RequestOutcome(TRUE, "")] }

\* context["config"]
Config(url, fields, sql_injection_settings, xss_settings, tests) ==
    [url |-> url, fields |-> fields,
     sql_injection_settings |-> sql_injection_settings,
     xss_settings |-> xss_settings,
     csrf_settings |-> Absent,
     comprehensive_settings |->
         [tests |-> tests, report_format |-> "html",
          sql_injection_settings |-> Absent, xss_settings |-> Absent,
          csrf_settings |-> Absent]]

\* cfg with per-category overrides in its comprehensive_settings
WithOverrides(cfg, sql_injection_settings, xss_settings, csrf_settings) ==
    [cfg EXCEPT !.comprehensive_settings.sql_injection_settings = sql_injection_settings,
                !.comprehensive_settings.xss_settings = xss_settings,
                !.comprehensive_settings.csrf_settings = csrf_settings]

\* the overrides of the comprehensive runs checked: none, or one per category
OverrideSets ==
    { <<Absent, Absent, Absent>>,
      <<Settings(TRUE, 1, <<"time">>), Settings(FALSE, 1, <<"dom">>),
        [check_tokens |-> TRUE]>> }

\* the state before a run, but for mode, config, has_logger and site
InitRun ==
    /\ pc = "start"
    /\ comprehensive_results = NoResults
    /\ called = {} /\ raised = {}
    /\ sql = SqlIdle /\ xss = XssIdle /\ csrf = CsrfIdle /\ headers = HeadersIdle
    /\ score_in = NoResults
    /\ submit = SubmitIdle /\ setup = SetupIdle

(***************************************************************************)
(* Comprehensive runs.                                                     *)
(***************************************************************************)
Init ==
    /\ mode = "comprehensive"
    /\ config \in { WithOverrides(Config(url, fields,
                                         Settings(TRUE, 0, <<"time">>),
                                         Settings(TRUE, 0, <<"dom">>), tests),
                                  o[1], o[2], o[3]) :
                      url \in {"", TargetUrl},
                      fields \in {<<CommentField, SubmitButton>>, <<>>},
                      tests \in TestSelections,
                      o \in OverrideSets }
    /\ has_logger \in BOOLEAN
    /\ site \in Sites
    /\ InitRun

Next ==
    \/ CompStart
    \/ SqlBegin \/ SqlNextField \/ SqlTrial \/ SqlFieldDone \/ SqlFinish
    \/ XssBegin \/ XssNextField \/ XssTrial \/ XssFieldDone \/ XssFinish
    \/ RunCsrf
    \/ RunHeaders
    \/ GenerateReport
    \/ ComputeScore

Spec == Init /\ [][Next]_vars

(***************************************************************************)
(* Runs of one prober alone, dispatched by main().                         *)
(***************************************************************************)
InitProber ==
    /\ \/ /\ mode = "sql_inject"
          /\ config \in { Config(url, c[1], c[2], Settings(TRUE, 0, <<"dom">>), {}) :
                            url \in {"", TargetUrl}, c \in SqlConfigs }
       \/ /\ mode = "xss"
          /\ config \in { Config(url, c[1], Settings(TRUE, 0, <<"time">>), c[2], {}) :
                            url \in {"", TargetUrl}, c \in XssConfigs }
    /\ has_logger = TRUE
    /\ site \in {CHOOSE x \in Sites : x.forms = <<>>}
    /\ InitRun

NextProber ==
    \/ Dispatch
    \/ SqlBegin \/ SqlNextField \/ SqlTrial \/ SqlFieldDone \/ SqlFinish
    \/ XssBegin \/ XssNextField \/ XssTrial \/ XssFieldDone \/ XssFinish

SpecProber == InitProber /\ [][NextProber]_vars

(***************************************************************************)
(* Runs of the CSRF analyzer alone, dispatched by main().                  *)
(***************************************************************************)
\* the cookies driver.get_cookies() can return
JarCookies ==
    { Cookie(s, h, "None") : s \in BOOLEAN, h \in BOOLEAN }
    \cup { Cookie(FALSE, FALSE, "Strict"), Cookie(FALSE, FALSE, "Lax"),
           Cookie(TRUE, TRUE, "Strict") }

\* the cookie jars of at most MaxCookies cookies
CookieJars == UNION { [1..k -> JarCookies] : k \in 0..MaxCookies }

\* the i-th form of a page
PageForm(i, method, has_csrf_token) ==
    Form(IF i = 1 THEN "login" ELSE IF i = 2 THEN "signup" ELSE "search",
         method, has_csrf_token)

\* the pages of at most MaxForms forms
PageForms ==
    UNION { { [i \in 1..k |-> PageForm(i, f[i][1], f[i][2])] :
                f \in [1..k -> {"post", "get"} \X BOOLEAN] } : k \in 0..MaxForms }

\* document.referrerPolicy of the page
ReferrerPolicies == {"", "same-origin"}

\* the target sites of the CSRF analyzer runs checked
CsrfSites ==
    { [forms |-> forms, cookies |-> cookies, referrer_policy |-> policy,
       header_status |-> AllHeaders("present"),
       redirect |-> RequestOutcome(FALSE, "https://example.test/")] :
        forms \in PageForms, cookies \in CookieJars, policy \in ReferrerPolicies }

InitCsrf ==
    /\ mode = "csrf"
    /\ config = Config(TargetUrl, <<CommentField, SubmitButton>>,
                       Settings(TRUE, 0, <<"time">>), Settings(TRUE, 0, <<"dom">>), {})
    /\ has_logger = TRUE
    /\ site \in CsrfSites
    /\ InitRun

NextCsrf ==
    \/ Dispatch
    \/ RunCsrf

SpecCsrf == InitCsrf /\ [][NextCsrf]_vars

(***************************************************************************)
(* Runs of the header analyzer alone, dispatched by main().                *)
(***************************************************************************)
\* the statuses evaluate_security_headers can give a catalog header
HeaderStatuses(name) ==
    CASE name = "Strict-Transport-Security" -> {"present", "weak", "invalid", "missing"}
      [] name \in {"Content-Security-Policy", "Referrer-Policy"} ->
            {"strong", "moderate", "weak", "missing"}
      [] name \in {"X-Content-Type-Options", "X-Frame-Options", "X-XSS-Protection"} ->
            {"present", "weak", "missing"}
      [] OTHER -> {"present", "missing"}

\* the names of the catalog
HeaderNames == {SECURITY_HEADERS[i].name : i \in 1..Len(SECURITY_HEADERS)}

\* the map giving the i-th catalog header the status st[i]
StatusMap(st) ==
    [n \in HeaderNames |->
        st[CHOOSE i \in 1..Len(SECURITY_HEADERS) : SECURITY_HEADERS[i].name = n]]

\* every combination of statuses of the catalog headers
HeaderStatusMaps ==
    { StatusMap(<<a, b, c, d, e, f, g, h, k>>) :
        a \in HeaderStatuses(SECURITY_HEADERS[1].name),
        b \in HeaderStatuses(SECURITY_HEADERS[2].name),
        c \in HeaderStatuses(SECURITY_HEADERS[3].name),
        d \in HeaderStatuses(SECURITY_HEADERS[4].name),
        e \in HeaderStatuses(SECURITY_HEADERS[5].name),
        f \in HeaderStatuses(SECURITY_HEADERS[6].name),
        g \in HeaderStatuses(SECURITY_HEADERS[7].name),
        h \in HeaderStatuses(SECURITY_HEADERS[8].name),
        k \in HeaderStatuses(SECURITY_HEADERS[9].name) }

\* what the plain-HTTP request of check_https_redirection can do
RequestOutcomes ==
    { RequestOutcome(TRUE, "") }
    \cup { RequestOutcome(FALSE, u) :
             u \in {"https://www.example.test/home", "http://example.test/https://"} }

\* the target sites of the header analyzer runs checked
HeaderSites ==
    { [forms |-> <<>>, cookies |-> <<>>, referrer_policy |-> "",
       header_status |-> hs, redirect |-> o] :
        hs \in HeaderStatusMaps, o \in RequestOutcomes }

InitHeaders ==
    /\ mode = "headers"
    /\ config \in { Config(url, <<CommentField, SubmitButton>>,
                           Settings(TRUE, 0, <<"time">>), Settings(TRUE, 0, <<"dom">>), {}) :
                      url \in {TargetUrl, "http://example.test"} }
    /\ has_logger = TRUE
    /\ site \in HeaderSites
    /\ config.url # TargetUrl =>
          \A n \in HeaderNames : site.header_status[n] \in {"strong", "present", "missing"}
    /\ InitRun

NextHeaders ==
    \/ Dispatch
    \/ RunHeaders

SpecHeaders == InitHeaders /\ [][NextHeaders]_vars

(***************************************************************************)
(* Direct calls of calculate_security_score.                               *)
(***************************************************************************)
\* a list of n SQL or XSS findings
CriticalFindings(n) ==
    [i \in 1..n |-> SqlFinding("comment", "' OR '1'='1", "sql syntax", TargetUrl)]

\* the lists of at most n findings with a severity out of severities
SeverityLists(severities, n) ==
    UNION { [1..k -> {[severity |-> sv] : sv \in severities}] : k \in 0..n }

\* the values a SQL or XSS slot of the result map can hold
CriticalSlots(key) ==
    {Absent, None, ErrorResult(BrowserError)}
    \cup { Dict([k \in {key} |-> CriticalFindings(n)]) : n \in 0..MaxFindings }

\* the result maps calculate_security_score is checked on
ScoreInputs ==
    { [NoResults EXCEPT !.sql_injection_results = s, !.xss_results = x,
                        !.csrf_results = Dict([csrf_vulnerabilities |-> c]),
                        !.headers_results = Dict([security_issues |-> h])] :
        s \in CriticalSlots("sql_vulnerabilities"),
        x \in CriticalSlots("xss_vulnerabilities"),
        c \in SeverityLists({"high", "medium", "low"}, MaxFindings),
        h \in SeverityLists({"high", "medium"}, MaxFindings) }

InitScore ==
    /\ mode = "score"
    /\ config = Config(TargetUrl, <<CommentField, SubmitButton>>,
                       Settings(TRUE, 0, <<"time">>), Settings(TRUE, 0, <<"dom">>), {})
    /\ has_logger = TRUE
    /\ site \in {CHOOSE x \in Sites : x.forms = <<>>}
    /\ pc = "start"
    /\ comprehensive_results = NoResults
    /\ called = {} /\ raised = {}
    /\ sql = SqlIdle /\ xss = XssIdle /\ csrf = CsrfIdle /\ headers = HeadersIdle
    /\ score_in \in ScoreInputs
    /\ submit = SubmitIdle /\ setup = SetupIdle

NextScore == DirectScore

SpecScore == InitScore /\ [][NextScore]_vars

(***************************************************************************)
(* Direct calls of analyze_header on a Referrer-Policy header              *)
(* (mode_headers.py).                                                      *)
(***************************************************************************)
\* the characters of each Referrer-Policy token, one per position
PolicyChars ==
    "no-referrer" :>
          << "n", "o", "-", "r", "e", "f", "e", "r", "r", "e", "r" >>
    @@
    "same-origin" :>
          << "s", "a", "m", "e", "-", "o", "r", "i", "g", "i", "n" >>
    @@
    "strict-origin" :>
          << "s", "t", "r", "i", "c", "t", "-", "o", "r", "i", "g", "i", "n" >>
    @@
    "strict-origin-when-cross-origin" :>
          << "s", "t", "r", "i", "c", "t", "-", "o", "r", "i", "g", "i", "n", "-", "w", "h",
             "e", "n", "-", "c", "r", "o", "s", "s", "-", "o", "r", "i", "g", "i", "n" >>
    @@
    "origin" :>
          << "o", "r", "i", "g", "i", "n" >>
    @@
    "origin-when-cross-origin" :>
          << "o", "r", "i", "g", "i", "n", "-", "w", "h", "e", "n", "-", "c", "r", "o", "s",
             "s", "-", "o", "r", "i", "g", "i", "n" >>
    @@
    "no-referrer-when-downgrade" :>
          << "n", "o", "-", "r", "e", "f", "e", "r", "r", "e", "r", "-", "w", "h", "e", "n",
             "-", "d", "o", "w", "n", "g", "r", "a", "d", "e" >>
    @@
    "unsafe-url" :>
          << "u", "n", "s", "a", "f", "e", "-", "u", "r", "l" >>

\* lines 152-153
strong_policies ==
    <<"no-referrer", "same-origin", "strict-origin", "strict-origin-when-cross-origin">>

weak_policies ==
    <<"origin", "origin-when-cross-origin", "no-referrer-when-downgrade">>

\* sub in text, for two Python strings
In(sub, text) == \E i \in 1..(Len(text) + 1) : StartsAt(text, i, sub)

\* any(policy in header_value for policy in policies)
AnyPolicyIn(policies, header_value) ==
    \E i \in 1..Len(policies) : In(PolicyChars[policies[i]], header_value)

\* result['status'] of analyze_header("Referrer-Policy", header_value),
\* lines 151-159: the strong list is tried first
ReferrerPolicyStatus(header_value) ==
    IF AnyPolicyIn(strong_policies, header_value) THEN "strong"
    ELSE IF AnyPolicyIn(weak_policies, header_value) THEN "moderate"
    ELSE "weak"

\* analyze_header called directly on a Referrer-Policy value
DirectAnalyzeHeader ==
    /\ mode = "analyze_header" /\ pc = "start"
    /\ pc' = "done"
    /\ headers' = [headers EXCEPT !.ret =
                      Dict([name |-> score_in.header_name,
                            value |-> score_in.header_value,
                            status |-> ReferrerPolicyStatus(score_in.header_value)])]
    /\ UNCHANGED <<mode, config, has_logger, site, comprehensive_results, called, raised,
                   sql, xss, csrf, score_in, submit, setup>>

\* the policy tokens a server may send
PolicyTokens == {strong_policies[i] : i \in 1..Len(strong_policies)}
                \cup {weak_policies[i] : i \in 1..Len(weak_policies)}
                \cup {"unsafe-url"}

\* ", ".join of the characters of the tokens
JoinPolicies(tokens) ==
    Concat([i \in 1..(2 * Len(tokens) - 1) |->
              IF i % 2 = 1 THEN PolicyChars[tokens[(i + 1) \div 2]] ELSE <<",", " ">>])

\* the Referrer-Policy values checked: the empty value, every token and
\* every comma-separated fallback list of at most MaxPolicies tokens
ReferrerPolicyValues ==
    { IF tokens = <<>> THEN <<>> ELSE JoinPolicies(tokens) :
        tokens \in UNION { [1..k -> PolicyTokens] : k \in 0..MaxPolicies } }

InitAnalyze ==
    /\ mode = "analyze_header"
    /\ config = Config(TargetUrl, <<CommentField, SubmitButton>>,
                       Settings(TRUE, 0, <<"time">>), Settings(TRUE, 0, <<"dom">>), {})
    /\ has_logger = TRUE
    /\ site \in {CHOOSE x \in Sites : x.forms = <<>>}
    /\ pc = "start"
    /\ comprehensive_results = NoResults
    /\ called = {} /\ raised = {}
    /\ sql = SqlIdle /\ xss = XssIdle /\ csrf = CsrfIdle /\ headers = HeadersIdle
    /\ score_in \in { [header_name |-> "Referrer-Policy", header_value |-> v] :
                        v \in ReferrerPolicyValues }
    /\ submit = SubmitIdle /\ setup = SetupIdle

NextAnalyze == DirectAnalyzeHeader

SpecAnalyze == InitAnalyze /\ [][NextAnalyze]_vars

(***************************************************************************)
(* Runs of the submission mode, dispatched by main().                      *)
(***************************************************************************)
InitSubmit ==
    /\ mode = "submit"
    /\ config \in { Config(url, fields, Settings(TRUE, 0, <<"time">>),
                           Settings(TRUE, 0, <<"dom">>), {}) :
                      url \in {TargetUrl, ""},
                      fields \in {<<CommentField, SubmitButton>>, <<>>} }
    /\ has_logger = TRUE
    /\ site \in {CHOOSE x \in Sites : x.forms = <<>>}
    /\ pc = "start"
    /\ comprehensive_results = NoResults
    /\ called = {} /\ raised = {}
    /\ sql = SqlIdle /\ xss = XssIdle /\ csrf = CsrfIdle /\ headers = HeadersIdle
    /\ score_in = NoResults
    /\ submit = SubmitIdle
    /\ setup \in {[SetupIdle EXCEPT !.in_docker = b] : b \in BOOLEAN}

NextSubmit ==
    \/ SubmitBegin
    \/ SubmitLoop
    \/ SetupDocker
    \/ SetupAttempt
    \/ SubmitBody
    \/ SubmitFinally

SpecSubmit == InitSubmit /\ [][NextSubmit]_vars

(***************************************************************************)
(* Properties.                                                             *)
(***************************************************************************)
\* the categories the comprehensive run selected
Selected == config.comprehensive_settings.tests

\* the comprehensive run has returned its result map
Finished == mode = "comprehensive" /\ pc = "done"

\* the slot of category cat holds a dict with an "error" message
HoldsError(cat) ==
    /\ comprehensive_results[SlotOf(cat)].type = "dict"
    /\ HasKey(comprehensive_results[SlotOf(cat)], "error")

\* the number of findings of list whose severity is severity
NumWithSeverity(list, severity) ==
    Cardinality({i \in 1..Len(list) : list[i].severity = severity})

\* the length of the list under key in a slot, 0 when the slot holds no dict
\* or the dict has no such key
NumEntries(slot, key) ==
    IF slot.type = "dict" /\ HasKey(slot, key) THEN Len(slot.items[key]) ELSE 0

\* min(P, max_attempts_per_field), where max_attempts_per_field = 0 means P
AttemptsPerField(P, max_attempts_per_field) ==
    IF max_attempts_per_field = 0 THEN P ELSE Min(P, max_attempts_per_field)

\* the characters HTML-entity escaping rewrites
HtmlSpecialChars == {"&", "<", ">", "\"", "'"}

\* C1: in run_comprehensive_mode, when the prober of a selected category
\* raises, the category's slot holds a dict with an "error" message, the run
\* does not end there, and once the categories are over every selected
\* category later in the order sql, xss, csrf, headers has been run.
C1_RaiseIsRecordedAndLaterCategoriesRun ==
    mode = "comprehensive" =>
        /\ pc # "crashed"
        /\ \A cat \in raised :
            /\ cat \in Selected
            /\ HoldsError(cat)
            /\ pc \in {"report", "score", "done"} =>
                 \A later \in Selected :
                     Position(later) > Position(cat) => later \in called

\* C1 witness: the SQL prober raised, its slot holds the error, and the three
\* later categories were all run before the run finished.
C1_Witness ==
    /\ Finished
    /\ "sql" \in raised
    /\ HoldsError("sql")
    /\ Selected = {"sql", "xss", "csrf", "headers"}
    /\ called = {"sql", "xss", "csrf", "headers"}
    /\ comprehensive_results.xss_results.type = "dict"
    /\ ~HoldsError("xss")

\* C2: calculate_security_score returns max(0, 100 - 15c - 10h - 5m - l), c
\* the number of entries of sql_vulnerabilities plus xss_vulnerabilities, and
\* h, m, l the numbers of CSRF and header findings of its input whose
\* severity is high, medium, low; the result lies in [0, 100].
C2_ScoreFormula ==
    (mode = "score" /\ pc = "done") =>
        LET c == NumEntries(score_in.sql_injection_results, "sql_vulnerabilities")
                 + NumEntries(score_in.xss_results, "xss_vulnerabilities")
            csrf_list == score_in.csrf_results.items.csrf_vulnerabilities
            issues == score_in.headers_results.items.security_issues
            h == NumWithSeverity(csrf_list, "high") + NumWithSeverity(issues, "high")
            m == NumWithSeverity(csrf_list, "medium") + NumWithSeverity(issues, "medium")
            l == NumWithSeverity(csrf_list, "low") + NumWithSeverity(issues, "low")
            raw == 100 - 15 * c - 10 * h - 5 * m - l
        IN  /\ comprehensive_results.security_score.type = "int"
            /\ comprehensive_results.security_score.value = (IF raw < 0 THEN 0 ELSE raw)
            /\ comprehensive_results.security_score.value \in 0..100

\* C2 witness: a scored input with SQL, XSS, high, medium and low findings
\* whose score is 100 - 15*2 - 10*2 - 5*1 - 1*1 = 44.
C2_Witness ==
    /\ mode = "score" /\ pc = "done"
    /\ NumEntries(score_in.sql_injection_results, "sql_vulnerabilities") = 1
    /\ NumEntries(score_in.xss_results, "xss_vulnerabilities") = 1
    /\ score_in.csrf_results.items.csrf_vulnerabilities
         = <<[severity |-> "high"], [severity |-> "low"]>>
    /\ score_in.headers_results.items.security_issues
         = <<[severity |-> "medium"], [severity |-> "high"]>>
    /\ comprehensive_results.security_score.value = 44

\* C3: in every comprehensive run the security_score lies in [0, 100], and
\* when every selected category errored the score is exactly 100.
C3_ScoreInRange ==
    (mode = "comprehensive" /\ comprehensive_results.security_score.type # "absent") =>
        /\ comprehensive_results.security_score.type = "int"
        /\ comprehensive_results.security_score.value \in 0..100
        /\ (\A cat \in Selected : HoldsError(cat)) =>
               comprehensive_results.security_score.value = 100

\* C3 witness: all four categories were selected, every one errored, and the
\* finished run scored 100.
C3_Witness ==
    /\ Finished
    /\ Selected = {"sql", "xss", "csrf", "headers"}
    /\ \A cat \in Selected : HoldsError(cat)
    /\ raised = {"sql", "xss", "csrf"}
    /\ comprehensive_results.security_score.value = 100

\* C4 (as claimed): every comprehensive run that has a target URL ends with
\* both a security_score and a report_path in its result.
C4_AlwaysScoreAndReport ==
    Finished =>
        /\ comprehensive_results.security_score.type = "int"
        /\ comprehensive_results.report_path.type = "str"

\* C4 witness of the divergence: a finished run whose SQL prober completed
\* and returned None has a score and a report_error but no report_path.
C4_NoReportWitness ==
    /\ Finished
    /\ sql.pc = "returned"
    /\ comprehensive_results.sql_injection_results.type = "NoneType"
    /\ comprehensive_results.security_score.type = "int"
    /\ comprehensive_results.report_error.type = "str"
    /\ comprehensive_results.report_path.type = "absent"

\* C5 (as claimed): in a comprehensive run in which run_csrf_mode records h
\* high-severity and m medium-severity vulnerabilities and no other category
\* records a finding, the security_score is max(0, 100 - 10h - 5m).
C5_CsrfFindingsLowerScore ==
    (/\ Finished
     /\ sql.suspicious_responses = <<>>
     /\ xss.xss_vulnerabilities = <<>>
     /\ headers.recorded = <<>>) =>
        comprehensive_results.security_score.value
          = Max(0, 100 - 10 * NumWithSeverity(csrf.recorded, "high")
                       - 5 * NumWithSeverity(csrf.recorded, "medium"))

\* C5 witness of the divergence: the CSRF analyzer recorded two high-severity
\* vulnerabilities, no other category recorded a finding, and the score is 100.
C5_UncountedWitness ==
    /\ Finished
    /\ NumWithSeverity(csrf.recorded, "high") = 2
    /\ sql.suspicious_responses = <<>>
    /\ xss.xss_vulnerabilities = <<>>
    /\ headers.recorded = <<>>
    /\ comprehensive_results.security_score.value = 100

\* C6 (as claimed): in a comprehensive run in which run_sql_injection_mode
\* records k findings and no other category records a finding, the
\* security_score is max(0, 100 - 15k).
C6_SqlFindingsAreCritical ==
    (/\ Finished
     /\ xss.xss_vulnerabilities = <<>>
     /\ csrf.recorded = <<>>
     /\ headers.recorded = <<>>) =>
        comprehensive_results.security_score.value
          = Max(0, 100 - 15 * Len(sql.suspicious_responses))

\* C6 witness of the divergence: the SQL prober recorded two findings, no
\* other category recorded a finding, and the score is 100.
C6_UncountedWitness ==
    /\ Finished
    /\ Len(sql.suspicious_responses) = 2
    /\ xss.xss_vulnerabilities = <<>>
    /\ csrf.recorded = <<>>
    /\ headers.recorded = <<>>
    /\ comprehensive_results.security_score.value = 100

\* C7 (as claimed): run_sql_injection_mode returns a dict holding total_tests,
\* the number of trials performed, and sql_vulnerabilities, the findings
\* recorded.
C7_ReturnsStructuredResult ==
    (mode = "sql_inject" /\ config.url # "" /\ sql.pc = "returned") =>
        /\ sql.ret.type = "dict"
        /\ Get(sql.ret, "total_tests", -1) = sql.total_tests
        /\ Get(sql.ret, "sql_vulnerabilities", <<>>) = sql.suspicious_responses

\* C7 witness of the divergence: one field, category basic and
\* max_attempts_per_field = 2 against a page that never shows an error
\* pattern: two trials, no finding, and the value returned is None.
C7_ScenarioWitness ==
    /\ mode = "sql_inject" /\ config.url # "" /\ sql.pc = "returned"
    /\ config.fields = <<CommentField, SubmitButton>>
    /\ config.sql_injection_settings = Settings(TRUE, 2, <<"basic">>)
    /\ sql.total_tests = 2
    /\ sql.suspicious_responses = <<>>
    /\ ~sql.load_failed
    /\ sql.ret = None

\* C8 (as claimed): for the SQL and the XSS prober, with F the configured
\* fields other than submit_button and checkbox-typed fields, P the size of
\* the payload list, early exit disabled and no page-load failure,
\* total_tests is F * min(P, max_attempts_per_field), 0 meaning P.
C8_TrialsPerConfiguredField ==
    /\ (mode = "sql_inject" /\ config.url # "" /\ sql.pc = "returned"
        /\ config.sql_injection_settings.test_all_fields /\ ~sql.load_failed) =>
           sql.total_tests =
             Len(TextFields(config.fields))
             * AttemptsPerField(
                 Len(SqlPayloads(config.sql_injection_settings.payload_categories)),
                 config.sql_injection_settings.max_attempts_per_field)
    /\ (mode = "xss" /\ config.url # "" /\ xss.pc = "returned"
        /\ config.xss_settings.test_all_fields /\ ~xss.load_failed) =>
           xss.total_tests =
             Len(TextFields(config.fields))
             * AttemptsPerField(
                 Len(XssPayloads(config.xss_settings.payload_categories)),
                 config.xss_settings.max_attempts_per_field)

\* C8 (amended): the same, with F the configured fields other than
\* submit_button and checkbox-typed fields that have a selector.
C8_TrialsPerFieldWithSelector ==
    LET F == Len(SelectSeq(TextFields(config.fields), LAMBDA f : f.selector # ""))
    IN  /\ (mode = "sql_inject" /\ config.url # "" /\ sql.pc = "returned"
            /\ config.sql_injection_settings.test_all_fields /\ ~sql.load_failed) =>
               sql.total_tests =
                 F * AttemptsPerField(
                       Len(SqlPayloads(config.sql_injection_settings.payload_categories)),
                       config.sql_injection_settings.max_attempts_per_field)
        /\ (mode = "xss" /\ config.url # "" /\ xss.pc = "returned"
            /\ config.xss_settings.test_all_fields /\ ~xss.load_failed) =>
               xss.total_tests =
                 F * AttemptsPerField(
                       Len(XssPayloads(config.xss_settings.payload_categories)),
                       config.xss_settings.max_attempts_per_field)

\* C8 witness: an XSS run over a field without a selector and a field with
\* one, three payloads limited to two per field, early exit disabled and no
\* page-load failure, that performed 1 * 2 trials.
C8_Witness ==
    /\ mode = "xss" /\ xss.pc = "returned" /\ ~xss.load_failed
    /\ config.fields = <<PhoneField, CommentField, SubmitButton>>
    /\ config.xss_settings = Settings(TRUE, 2, <<"dom">>)
    /\ xss.total_tests = 2

\* C9: the SQL prober records one finding for a trial whose evaluated page
\* holds an SQL error signature, however many signatures the page holds, and
\* none for any other trial; so the number of findings is the number of such
\* trials, and is total_tests when every trial's page held a signature.
C9_OneFindingPerTrial ==
    /\ sql.trial.recorded = (IF sql.trial.signatures > 0 THEN 1 ELSE 0)
    /\ Len(sql.suspicious_responses) = sql.evidence_trials
    /\ sql.evidence_trials <= sql.total_tests
    /\ sql.evidence_trials = sql.total_tests =>
           Len(sql.suspicious_responses) = sql.total_tests

\* C9 witness: the page held a signature after every one of two trials, three
\* signatures after the last, and the prober recorded two findings.
C9_Witness ==
    /\ mode = "sql_inject" /\ sql.pc = "payloads"
    /\ sql.total_tests = 2
    /\ sql.evidence_trials = 2
    /\ sql.trial.signatures = 3
    /\ sql.trial.recorded = 1
    /\ Len(sql.suspicious_responses) = 2

\* C10 (as claimed): XSS prober, for every payload of the catalog: when the
\* page returned after submission shows the payload only in
\* HTML-entity-escaped form, the trial records no finding of type
\* "unescaped".
C10_EscapedNeverFlagged ==
    (xss.trial.evaluated /\ xss.trial.reflect = "escaped") =>
        \A i \in 1..Len(xss.trial.recorded) : xss.trial.recorded[i] # "unescaped"

\* C10 (amended): the same, for every payload of the catalog that holds a
\* character HTML-entity escaping rewrites (one of & < > " ').
C10_EscapedNeverFlaggedIfRewritten ==
    (/\ xss.trial.evaluated /\ xss.trial.reflect = "escaped"
     /\ \E k \in 1..Len(PayloadChars[xss.trial.payload]) :
            PayloadChars[xss.trial.payload][k] \in HtmlSpecialChars) =>
        \A i \in 1..Len(xss.trial.recorded) : xss.trial.recorded[i] # "unescaped"

\* C10 witness: a trial of <script>alert(1)</script> whose page showed the
\* payload entity-escaped was evaluated and recorded nothing.
C10_Witness ==
    /\ xss.trial.evaluated /\ xss.trial.reflect = "escaped"
    /\ xss.trial.payload = "<script>alert(1)</script>"
    /\ xss.trial.clicked
    /\ xss.trial.recorded = <<>>

\* C11: the protection score of every form tested is 2 if some cookie is
\* SameSite Strict or Lax, plus 1 if some cookie is Secure, plus 1 if some
\* cookie is HttpOnly, plus 1 for a protective referrer policy, plus 3 for
\* a CSRF token field: each attribute counts once however many cookies
\* carry it, so the score is at most 8.
C11_EachAttributeCreditedOnce ==
    \A i \in 1..Len(csrf.tested) :
        LET p == csrf.tested[i].protection
        IN  /\ p.score = (IF p.has_samesite_cookie THEN 2 ELSE 0)
                          + (IF p.has_secure_cookie THEN 1 ELSE 0)
                          + (IF p.has_httponly_cookie THEN 1 ELSE 0)
                          + (IF p.has_referer_protection THEN 1 ELSE 0)
                          + (IF p.has_csrf_token THEN 3 ELSE 0)
            /\ p.score <= 8

\* two cookies carrying every attribute take a token form's score past 8
C11_ScoreAboveEightWitness ==
    /\ csrf.pc = "returned"
    /\ Len(site.cookies) = 2
    /\ \E i \in 1..Len(csrf.tested) : csrf.tested[i].protection.score > 8

\* the vulnerabilities run_csrf_mode recorded for the form with this id
RecordedFor(form_id) ==
    {j \in 1..Len(csrf.recorded) : csrf.recorded[j].form_id = form_id}

\* C12: for every form that is not a GET form, a score of 4 or more is
\* level strong and the form is not recorded as vulnerable; a score of 2 or
\* 3 is level medium and the form is recorded once with severity medium; a
\* score below 2 is level weak and the form is recorded once with severity
\* high.
C12_LevelAndSeverityByScore ==
    \A i \in 1..Len(csrf.tested) :
        LET t == csrf.tested[i]
            score == t.protection.score
            rec == RecordedFor(t.form_id)
        IN  /\ score >= 4 =>
                  /\ t.protection.level = "strong"
                  /\ ~t.vulnerable /\ rec = {}
            /\ (score >= 2 /\ score < 4) =>
                  /\ t.protection.level = "medium"
                  /\ Cardinality(rec) = 1
                  /\ \A j \in rec : csrf.recorded[j].severity = "medium"
            /\ score < 2 =>
                  /\ t.protection.level = "weak"
                  /\ Cardinality(rec) = 1
                  /\ \A j \in rec : csrf.recorded[j].severity = "high"

\* a page whose first form scores exactly 4 and whose second form scores 1
C12_Witness ==
    /\ csrf.pc = "returned" /\ Len(csrf.tested) = 2
    /\ csrf.tested[1].protection.score = 4
    /\ csrf.tested[2].protection.score = 1
    /\ Len(csrf.recorded) = 1 /\ csrf.recorded[1].severity = "high"

\* the forms of the page whose method is GET, and the others
GetForms == SelectSeq(site.forms, LAMBDA form : form.method = "get")
NonGetForms == SelectSeq(site.forms, LAMBDA form : form.method # "get")

\* C13: a GET form is skipped entirely: it is never recorded as a
\* vulnerability and it is not counted, so forms_tested is the number of
\* forms of the page that are not GET forms.
C13_GetFormsNotCounted ==
    (csrf.pc = "returned" /\ HasKey(csrf.ret, "forms_tested")) =>
        /\ \A i \in 1..Len(GetForms) : RecordedFor(GetForms[i].id) = {}
        /\ csrf.ret.items.forms_tested = Len(NonGetForms)

\* a page with a GET form and a POST form: forms_tested is 2
C13_GetFormCountedWitness ==
    /\ csrf.pc = "returned"
    /\ Len(GetForms) = 1 /\ Len(NonGetForms) = 1
    /\ RecordedFor(GetForms[1].id) = {}
    /\ csrf.ret.items.forms_tested = 2

\* C14: a page with no forms gives a successful, empty result: success is
\* true, forms_tested is 0, there are no vulnerabilities and no error, and
\* nothing is raised.
C14_NoFormsIsEmptySuccess ==
    (csrf.extracted /\ site.forms = <<>>) =>
        /\ csrf.pc = "returned" /\ "csrf" \notin raised
        /\ csrf.ret.type = "dict"
        /\ Get(csrf.ret, "success", FALSE) = TRUE
        /\ Get(csrf.ret, "forms_tested", -1) = 0
        /\ Get(csrf.ret, "vulnerabilities", None) = <<>>
        /\ ~HasKey(csrf.ret, "error")

C14_Witness ==
    /\ csrf.extracted /\ site.forms = <<>> /\ site.cookies # <<>>
    /\ csrf.ret.items.success /\ csrf.ret.items.forms_tested = 0

\* the catalog headers of a severity whose status on the site is in statuses
HeadersWith(severity, statuses) ==
    {i \in 1..Len(SECURITY_HEADERS) :
        /\ SECURITY_HEADERS[i].severity = severity
        /\ site.header_status[SECURITY_HEADERS[i].name] \in statuses}

\* run_headers_mode returned the result of an analysis
HeadersAnalyzed ==
    headers.pc = "returned" /\ HasKey(headers.ret, "security_score")

\* C15: the header score is floor(100 * earned / total) with weights high
\* 3, medium 2, low 1 over the 9 catalog headers, a header earning its
\* weight exactly when its status is present, strong or moderate, and a
\* passed HTTPS redirect adding 2 to both; the score is in 0..100 and is
\* 100 when every header earns credit.
C15_HeaderScore ==
    HeadersAnalyzed =>
        LET ok == {"present", "strong", "moderate"}
            bonus == IF headers.ret.items.https_redirect = "passed" THEN 2 ELSE 0
            earned == 3 * Cardinality(HeadersWith("high", ok))
                      + 2 * Cardinality(HeadersWith("medium", ok))
                      + Cardinality(HeadersWith("low", ok)) + bonus
            total == 3 * 2 + 2 * 4 + 1 * 3 + bonus
            security_score == headers.ret.items.security_score
        IN  /\ Len(SECURITY_HEADERS) = 9
            /\ security_score = (100 * earned) \div total
            /\ security_score \in 0..100
            /\ (\A n \in DOMAIN site.header_status : site.header_status[n] \in ok)
                  => security_score = 100

\* one medium header is weak, the redirect passed: 17 of 19, score 89
C15_Witness ==
    /\ HeadersAnalyzed
    /\ headers.ret.items.https_redirect = "passed"
    /\ site.header_status["X-Frame-Options"] = "weak"
    /\ site.header_status["Strict-Transport-Security"] = "present"
    /\ headers.ret.items.security_score = 89

\* the findings of the header analysis about the catalog header name
IssuesAbout(name) ==
    {j \in 1..Len(headers.recorded) :
        /\ headers.recorded[j].type # "http_not_redirected"
        /\ headers.recorded[j].header = name}

\* the findings of the header analysis of a type
IssuesOfType(type) ==
    {j \in 1..Len(headers.recorded) : headers.recorded[j].type = type}

\* C16: the findings of the header analysis are exactly one missing_header
\* of severity high for every missing high-severity catalog header, one
\* weak_header of severity medium for every high-severity catalog header
\* whose status is weak or invalid, and one http_not_redirected of severity
\* high when the redirect check failed; a medium or low catalog header
\* never produces a finding.
C16_HeaderFindings ==
    HeadersAnalyzed =>
        /\ headers.ret.items.vulnerabilities = headers.recorded
        /\ \A i \in 1..Len(SECURITY_HEADERS) :
              LET h == SECURITY_HEADERS[i]
                  status == site.header_status[h.name]
                  about == IssuesAbout(h.name)
              IN  IF h.severity = "high" /\ status = "missing"
                  THEN /\ Cardinality(about) = 1
                       /\ \A j \in about :
                             /\ headers.recorded[j].type = "missing_header"
                             /\ headers.recorded[j].severity = "high"
                  ELSE IF h.severity = "high" /\ status \in {"weak", "invalid"}
                  THEN /\ Cardinality(about) = 1
                       /\ \A j \in about :
                             /\ headers.recorded[j].type = "weak_header"
                             /\ headers.recorded[j].severity = "medium"
                  ELSE about = {}
        /\ Cardinality(IssuesOfType("http_not_redirected")) =
              (IF headers.ret.items.https_redirect = "failed" THEN 1 ELSE 0)
        /\ \A j \in IssuesOfType("http_not_redirected") :
              headers.recorded[j].severity = "high"
        /\ \A j \in 1..Len(headers.recorded) :
              headers.recorded[j].type \in
                  {"missing_header", "weak_header", "http_not_redirected"}

\* HSTS invalid, CSP missing, a medium and a low header missing, the
\* redirect failed: three findings
C16_Witness ==
    /\ HeadersAnalyzed
    /\ site.header_status["Strict-Transport-Security"] = "invalid"
    /\ site.header_status["Content-Security-Policy"] = "missing"
    /\ site.header_status["X-Frame-Options"] = "missing"
    /\ site.header_status["Cache-Control"] = "missing"
    /\ headers.ret.items.https_redirect = "failed"
    /\ Len(headers.recorded) = 3

\* C17: when the fetch of the target URL fails, run_headers_mode raises
\* nothing and returns an error result (success false, an error message, no
\* findings); in a comprehensive run the result adds no deduction, and the
\* score is still computed.
C17_FetchFailureIsErrorResult ==
    headers.fetch = "failed" =>
        /\ headers.pc = "returned" /\ "headers" \notin raised
        /\ headers.ret.type = "dict"
        /\ Get(headers.ret, "success", TRUE) = FALSE
        /\ HasKey(headers.ret, "error")
        /\ Get(headers.ret, "vulnerabilities", <<>>) = <<>>
        /\ Get(headers.ret, "security_issues", <<>>) = <<>>
        /\ Finished =>
              /\ comprehensive_results.security_score.type = "int"
              /\ comprehensive_results.security_score.value =
                    calculate_security_score(
                        [comprehensive_results EXCEPT !.headers_results = EmptyDict])

\* a finished comprehensive run whose header fetch failed and whose score
\* carries the deductions of another category
C17_Witness ==
    /\ Finished
    /\ headers.fetch = "failed"
    /\ HoldsError("headers")
    /\ comprehensive_results.security_score.type = "int"
    /\ comprehensive_results.security_score.value < 100

\* the weight the catalog headers of the site earn
EarnedByHeaders ==
    LET ok == {"present", "strong", "moderate"}
    IN  3 * Cardinality(HeadersWith("high", ok))
        + 2 * Cardinality(HeadersWith("medium", ok))
        + Cardinality(HeadersWith("low", ok))

\* C18: the redirect check gives exactly one of four statuses: skipped when
\* the target scheme is not https, and then no plain-HTTP request is issued;
\* passed when the final URL of the plain-HTTP request starts with
\* https://; failed when it does not; error when the request raises. Only
\* failed produces an http_not_redirected finding and only passed adds the
\* bonus of 2 to the earned and the total weight.
C18_RedirectStatus ==
    HeadersAnalyzed =>
        LET status == headers.ret.items.https_redirect
            https_target == config.url = "https://example.test"
            final_is_https == site.redirect.final_url = "https://www.example.test/home"
        IN  /\ status \in {"skipped", "passed", "failed", "error"}
            /\ status = "skipped" <=> ~https_target
            /\ status = "skipped" => ~headers.http_requested
            /\ status = "error" <=> (https_target /\ site.redirect.raises)
            /\ status = "passed" <=>
                  (https_target /\ ~site.redirect.raises /\ final_is_https)
            /\ status = "failed" <=>
                  (https_target /\ ~site.redirect.raises /\ ~final_is_https)
            /\ (IssuesOfType("http_not_redirected") # {}) <=> status = "failed"
            /\ headers.ret.items.security_score =
                  (IF status = "passed"
                   THEN (100 * (EarnedByHeaders + 2)) \div (17 + 2)
                   ELSE (100 * EarnedByHeaders) \div 17)

\* the plain-HTTP request ends on an http URL that only contains https://:
\* the check failed, the finding is reported and no bonus is added
C18_Witness ==
    /\ HeadersAnalyzed /\ headers.http_requested
    /\ site.redirect = RequestOutcome(FALSE, "http://example.test/https://")
    /\ headers.ret.items.https_redirect = "failed"
    /\ IssuesOfType("http_not_redirected") # {}
    /\ EarnedByHeaders = 17 /\ headers.ret.items.security_score = 100

\* C19: in each category that uses a browser (SQL prober, XSS prober, CSRF
\* analyzer) the session, once acquired, has been released when the
\* category is left, whether it returned or raised: no session is open when
\* the next category starts.
C19_SessionReleasedOnExit ==
    /\ sql.pc \in {"returned", "raised"} => sql.driver # "open"
    /\ xss.pc \in {"returned", "raised"} => xss.driver # "open"
    /\ csrf.pc \in {"returned", "raised"} => csrf.driver # "open"

\* the CSRF analyzer returned for a page without forms, its session is
\* still open and the header analyzer has run
C19_OpenSessionWitness ==
    /\ mode = "comprehensive"
    /\ csrf.pc = "returned" /\ csrf.extracted /\ site.forms = <<>>
    /\ csrf.driver = "open"
    /\ sql.driver = "quit" /\ xss.driver = "quit"
    /\ "headers" \in called

\* the configuration of the run has no URL, or no fields
ConfigurationError == config.url = "" \/ config.fields = <<>>

\* C20: a configuration error, no URL or no fields, is fatal to the whole
\* comprehensive run: no category prober is run and no report generation
\* is attempted.
C20_ConfigurationErrorIsFatal ==
    (mode = "comprehensive" /\ ConfigurationError) =>
        /\ called = {}
        /\ pc \notin {"report", "score", "done"}
        /\ comprehensive_results.report_path.type = "absent"
        /\ comprehensive_results.report_error.type = "absent"

\* a run with a URL and no fields ran all four categories, the SQL and XSS
\* probers without a trial, and generated the report
C20_NoFieldsRunsWitness ==
    /\ Finished
    /\ config.url # "" /\ config.fields = <<>>
    /\ called = {"sql", "xss", "csrf", "headers"}
    /\ sql.total_tests = 0 /\ xss.total_tests = 0
    /\ comprehensive_results.security_score.type = "int"

\* C21: the overall score is computed before the merged result is handed to
\* generate_report: in every step in which the report is generated, the
\* result map handed over already holds the security_score.
C21_ScoreBeforeReport ==
    [][(/\ mode = "comprehensive" /\ pc = "report"
        /\ comprehensive_results'.report_path.type = "str")
       => comprehensive_results.security_score.type = "int"]_vars

\* the report has been generated and the result map has no score yet
C21_ReportWithoutScoreWitness ==
    /\ mode = "comprehensive" /\ pc = "score"
    /\ comprehensive_results.report_path.type = "str"
    /\ comprehensive_results.security_score.type = "absent"

\* the page load of a trial of category cat failed and the category returned
LoadFailedIn(cat) ==
    IF cat = "sql" THEN sql.pc = "returned" /\ sql.load_failed
    ELSE xss.pc = "returned" /\ xss.load_failed

\* C22: when a page load fails while the SQL or the XSS prober is running,
\* the slot of that category in the comprehensive result holds an error, and
\* the category contributes no findings to the score, the findings of the
\* trials completed before the failure included.
C22_TransportFailureReportsError ==
    \A cat \in {"sql", "xss"} :
        (mode = "comprehensive" /\ LoadFailedIn(cat)) =>
            /\ HoldsError(cat)
            /\ Finished =>
                  comprehensive_results.security_score.value =
                      calculate_security_score(
                          [comprehensive_results EXCEPT ![SlotOf(cat)] = EmptyDict])

\* the second XSS trial failed to load the page after the first recorded a
\* finding: the slot holds the finding and no error, and the score is lowered
C22_FindingsKeptWitness ==
    /\ Finished
    /\ xss.load_failed /\ xss.total_tests = 2
    /\ Len(xss.xss_vulnerabilities) = 1
    /\ ~HoldsError("xss")
    /\ Get(comprehensive_results.xss_results, "xss_vulnerabilities", <<>>)
         = xss.xss_vulnerabilities
    /\ comprehensive_results.security_score.value = 85

\* C23: run_comprehensive_mode treats the caller's configuration as
\* read-only: no step of a comprehensive run changes a key or a value of the
\* caller's config, also when comprehensive_settings carries overrides
\* that are applied for the category run.
C23_CallerConfigReadOnly ==
    [][mode = "comprehensive" => config' = config]_vars

\* the XSS prober ran with the override of comprehensive_settings while the
\* caller's config still holds its own xss_settings
C23_Witness ==
    /\ mode = "comprehensive"
    /\ xss.pc = "payloads"
    /\ config.comprehensive_settings.xss_settings = Settings(FALSE, 1, <<"dom">>)
    /\ xss.config.xss_settings = Settings(FALSE, 1, <<"dom">>)
    /\ config.xss_settings = Settings(TRUE, 0, <<"dom">>)
    /\ Len(xss.payloads) = 1

\* a step of prober state p to q is a trial in which the field under test
\* could not be located or filled
FieldFailureStep(p, q) ==
    /\ p.pc = "payloads" /\ p.pi <= Len(p.payloads) /\ q # p
    /\ q.trial.loaded /\ ~q.trial.filled

\* after the step the prober goes on with the next payload of the same field
NextPayloadOfField(p, q) ==
    /\ q.pc = "payloads" /\ q.fi = p.fi /\ q.payloads = p.payloads
    /\ q.pi = p.pi + 1
    /\ q.total_tests = p.total_tests + 1

\* C24: in the SQL and XSS probers a failure to locate or interact with the
\* field under test ends only the current trial: the trial records no
\* finding, the run is not aborted, the trial is counted like any other and
\* the next payload of the same field is tried.
C24_FieldFailureEndsOnlyTrial ==
    [][/\ FieldFailureStep(sql, sql') =>
            /\ NextPayloadOfField(sql, sql')
            /\ sql'.suspicious_responses = sql.suspicious_responses
       /\ FieldFailureStep(xss, xss') =>
            /\ NextPayloadOfField(xss, xss')
            /\ xss'.xss_vulnerabilities = xss.xss_vulnerabilities]_vars

\* the first trial of a field failed on the field and a second payload of
\* that field is next
C24_Witness ==
    /\ xss.pc = "payloads" /\ xss.total_tests = 1
    /\ xss.trial.loaded /\ ~xss.trial.filled
    /\ xss.pi = 2 /\ Len(xss.payloads) >= 2
    /\ xss.xss_vulnerabilities = <<>>

\* the last trial of prober state p ran with a submit control configured
SubmitConfigured(p) ==
    p.trial.loaded /\ SubmitSelector(p.config.fields) # ""

\* C25: each trial follows LOADED -> FIELD_FILLED -> SUBMITTED ->
\* EVALUATED: when a submit control is configured, the page is evaluated
\* only after the control was clicked, and a trial whose submit control
\* could not be located or clicked records no finding.
C25_EvaluatedOnlyAfterSubmit ==
    /\ SubmitConfigured(sql) =>
          /\ sql.trial.evaluated => (sql.trial.filled /\ sql.trial.clicked)
          /\ ~sql.trial.clicked => sql.trial.recorded = 0
    /\ SubmitConfigured(xss) =>
          /\ xss.trial.evaluated => (xss.trial.filled /\ xss.trial.clicked)
          /\ ~xss.trial.clicked => xss.trial.recorded = <<>>

\* the wait for the submit control timed out, the page was evaluated all
\* the same and the trial recorded a finding
C25_UnsubmittedFindingWitness ==
    /\ SubmitConfigured(sql)
    /\ sql.trial.filled /\ ~sql.trial.clicked /\ sql.trial.evaluated
    /\ sql.trial.recorded = 1
    /\ Len(sql.suspicious_responses) = 1

\* the early-exit policy on a step of prober state p to q, with p's findings
\* and q's findings and whether every field is to be tested
EarlyExitPolicy(p, q, findings, findings_after, test_all_fields) ==
    LET text_fields == TextFields(p.config.fields)
    IN  \* a trial is about to run: with early exit on, every finding so far
        \* is one of the field under test
        /\ (p.pc = "payloads" /\ p.pi <= Len(p.payloads) /\ ~test_all_fields) =>
              \A i \in 1..Len(findings) : findings[i].field = text_fields[p.fi].name
        \* a trial that records a finding is followed by the next payload
        /\ (p.pc = "payloads" /\ Len(findings_after) > Len(findings)) =>
              /\ q.pc = "payloads" /\ q.fi = p.fi /\ q.pi = p.pi + 1
              /\ q.payloads = p.payloads
        \* a field's payloads are finished: the run stops exactly when early
        \* exit is on and a finding exists, and else takes the next field
        /\ (p.pc = "payloads" /\ p.pi > Len(p.payloads) /\ q # p) =>
              IF ~test_all_fields /\ findings # <<>>
              THEN q.pc = "finish" /\ q.total_tests = p.total_tests
              ELSE q.pc = "fields" /\ q.fi = p.fi + 1
        \* the fields end only when every field has had its turn
        /\ (p.pc = "fields" /\ q.pc = "finish") => p.fi > Len(text_fields)

\* C26: early exit in the SQL and XSS probers: when test_all_fields is
\* false and a finding exists once a field's payload list is finished, no
\* trial is performed on a later field; the payloads of the field of the
\* first finding are all still tried; while no finding exists every field
\* is tested.
C26_EarlyExit ==
    [][/\ sql.pc \in {"fields", "payloads"} =>
            EarlyExitPolicy(sql, sql', sql.suspicious_responses,
                            sql'.suspicious_responses,
                            sql.config.sql_injection_settings.test_all_fields)
       /\ xss.pc \in {"fields", "payloads"} =>
            EarlyExitPolicy(xss, xss', xss.xss_vulnerabilities,
                            xss'.xss_vulnerabilities,
                            xss.config.xss_settings.test_all_fields)]_vars

\* early exit is on, the first of two payloads of the first field recorded
\* a finding, the second was still tried, and the run stopped before the
\* second field
C26_Witness ==
    /\ xss.pc = "finish" /\ ~xss.load_failed
    /\ ~xss.config.xss_settings.test_all_fields
    /\ xss.fi = 1 /\ Len(TextFields(xss.config.fields)) = 2
    /\ Len(xss.payloads) = 2 /\ xss.total_tests = 2
    /\ xss.xss_vulnerabilities # <<>>
    /\ xss.xss_vulnerabilities[1].payload = xss.payloads[1]

\* list before is a prefix of list after
IsPrefix(before, after) ==
    /\ Len(before) <= Len(after)
    /\ SubSeq(after, 1, Len(before)) = before

\* the findings of list from position n + 1 on whose type is type
AppendedOfType(list, n, type) ==
    {i \in (n + 1)..Len(list) : list[i].type = type}

\* C27: after any sequence of trials the SQL prober has recorded at most
\* total_tests findings and the XSS prober at most 2 * total_tests, at most
\* one of type alert and one of type unescaped per trial; a finding is only
\* appended, never changed or removed.
C27_FindingsBoundedAndAppendOnly ==
    [][/\ Len(sql.suspicious_responses) <= sql.total_tests
       /\ Len(sql'.suspicious_responses) <= sql'.total_tests
       /\ Len(xss.xss_vulnerabilities) <= 2 * xss.total_tests
       /\ Len(xss'.xss_vulnerabilities) <= 2 * xss'.total_tests
       /\ IsPrefix(sql.suspicious_responses, sql'.suspicious_responses)
       /\ IsPrefix(xss.xss_vulnerabilities, xss'.xss_vulnerabilities)
       /\ Len(sql'.suspicious_responses) - Len(sql.suspicious_responses)
            <= sql'.total_tests - sql.total_tests
       /\ \A type \in {"alert", "unescaped"} :
             Cardinality(AppendedOfType(xss'.xss_vulnerabilities,
                                        Len(xss.xss_vulnerabilities), type))
               <= xss'.total_tests - xss.total_tests
       /\ \A i \in 1..Len(xss'.xss_vulnerabilities) :
             xss'.xss_vulnerabilities[i].type \in {"alert", "unescaped"}]_vars

\* two trials recorded four findings, an alert and an unescaped reflection each
C27_Witness ==
    /\ xss.total_tests = 2
    /\ Len(xss.xss_vulnerabilities) = 4
    /\ xss.xss_vulnerabilities[1].type = "alert"
    /\ xss.xss_vulnerabilities[2].type = "unescaped"
    /\ xss.xss_vulnerabilities[3].payload # xss.xss_vulnerabilities[1].payload

\* C28: analyze_header gives a Referrer-Policy value that is exactly one of
\* the listed weaker policies (origin, origin-when-cross-origin,
\* no-referrer-when-downgrade) the status moderate, a value that is exactly
\* one of no-referrer, same-origin, strict-origin,
\* strict-origin-when-cross-origin the status strong, and a value containing
\* none of the listed policies the status weak.
C28_ReferrerPolicyByLists ==
    (mode = "analyze_header" /\ pc = "done") =>
        LET value == score_in.header_value
            status == headers.ret.items.status
        IN  /\ (\E i \in 1..Len(weak_policies) : value = PolicyChars[weak_policies[i]])
                  => status = "moderate"
            /\ (\E i \in 1..Len(strong_policies) : value = PolicyChars[strong_policies[i]])
                  => status = "strong"
            /\ (~AnyPolicyIn(strong_policies, value) /\ ~AnyPolicyIn(weak_policies, value))
                  => status = "weak"

\* the value no-referrer-when-downgrade, a listed weaker policy, has been
\* classified strong
C28_DowngradeStrongWitness ==
    /\ mode = "analyze_header" /\ pc = "done"
    /\ score_in.header_value = PolicyChars["no-referrer-when-downgrade"]
    /\ headers.ret.items.status = "strong"

\* at the top of the loop of run_submit_mode the counters agree
SubmitCountersConsistent(s) ==
    /\ s.success_count + s.failure_count = s.submission_count
    /\ s.consecutive_failures <= 2

\* the step is a submission that ran to its end without an interrupt
SubmissionFinished ==
    submit.pc = "setup" /\ submit'.pc = "finally" /\ ~submit'.interrupted

\* C29: in run_submit_mode, whenever the loop is about to start a new
\* submission, success_count + failure_count equals submission_count and
\* consecutive_failures is at most 2; each finished submission increments
\* exactly one of the two counters, a success resets consecutive_failures to
\* 0, reaching 3 consecutive failures resets it to 0 after the recovery
\* pause; and every browser created for a submission has been quit before
\* the next submission starts.
C29_SubmitCountersAndBrowsers ==
    [][mode = "submit" =>
         /\ submit'.pc = "loop" =>
               /\ SubmitCountersConsistent(submit')
               /\ submit'.open = {}
         /\ SubmissionFinished =>
               LET succeeded == submit'.success_count = submit.success_count + 1
                   failed == submit'.failure_count = submit.failure_count + 1
               IN  /\ succeeded # failed
                   /\ succeeded => /\ submit'.failure_count = submit.failure_count
                                   /\ submit'.consecutive_failures = 0
                   /\ failed => submit'.success_count = submit.success_count
         /\ (submit.pc = "finally" /\ submit.consecutive_failures >= 3) =>
               submit'.consecutive_failures = 0]_vars

\* the loop is about to start a submission while a browser that an earlier
\* submission created, and whose test command failed, is still open
C29_OpenBrowserWitness ==
    /\ mode = "submit" /\ submit.pc = "loop"
    /\ SubmitCountersConsistent(submit)
    /\ submit.failure_count = 0 /\ submit.success_count = 1
    /\ submit.open = {[submission |-> 1, attempt |-> 1]}

\* C30: outside Docker, setup_driver makes at most 3 attempts to create the
\* browser; it returns the driver of the first attempt that is created and
\* passes the test command, makes no attempt after a success, and raises the
\* error of the last attempt when all 3 attempts fail.
C30_AtMostThreeAttempts ==
    (mode = "submit" /\ ~setup.in_docker) =>
        LET n == Len(setup.outcomes)
        IN  /\ n <= 3
            /\ \A k \in 1..(n - 1) : setup.outcomes[k] # "passed"
            /\ setup.pc = "returned" <=> (n >= 1 /\ setup.outcomes[n] = "passed")
            /\ setup.pc = "returned" => setup.driver = [attempt |-> n]
            /\ setup.pc = "raised" <=> (n = 3 /\ setup.outcomes[n] # "passed")
            /\ setup.pc = "raised" => setup.error = AttemptError(n, setup.outcomes[n])
            /\ setup.pc \notin {"returned", "raised"} =>
                  setup.driver = None /\ setup.error = None

\* the third attempt has passed after an attempt that created no browser
\* and one whose test command failed
C30_Witness ==
    /\ mode = "submit" /\ ~setup.in_docker
    /\ setup.pc = "returned"
    /\ setup.outcomes = <<"create_failed", "test_failed", "passed">>
    /\ setup.driver = [attempt |-> 3]

\* all three attempts have failed and the error of the third is raised
C30_RaisedWitness ==
    /\ mode = "submit" /\ ~setup.in_docker
    /\ setup.pc = "raised"
    /\ setup.error.attempt = 3

====
